---------------------------- MODULE Spec2Model ----------------------------
(***************************************************************************)
(* Verification model of the PDDL / NL-plan validation pipeline:           *)
(*   - case_demo/run_validate.py: VAL output classifier, result ledger     *)
(*   - problem_validation/generate_problem.py: generate/verify/repair loops*)
(*   - problem_validation/test_planner_repair.py: planner repair loop      *)
(*   - problem_validation/llmcaller.py: generation retries and backoff     *)
(*   - nl_plan_validator/generate_and_validate.py, demo.py: batch drivers  *)
(* Texts are sequences of one-character strings, so that the regular       *)
(* expressions, splitlines(), strip() and slicing of the source are        *)
(* computed and not assumed.                                               *)
(***************************************************************************)
EXTENDS Integers, Sequences, FiniteSets, TLC

VARIABLES
    text,          \* classifier: the raw text handed to parse_val_output
    parsed,        \* classifier: the record parse_val_output returned
    cpc,           \* classifier: "ready" | "parsed"
    datasetExists, \* ledger: results/dataset.jsonl exists
    ledger,        \* ledger: the lines of results/dataset.jsonl, in file order
    summary,       \* ledger: the content of results/summary.json (NoSummary: not written)
    lastOp,        \* ledger: the last operation and how it ended
    lastRecord,    \* ledger: the record of the last append_to_dataset call
    appended,      \* ledger (history): output_hash of every append call since the last reset
    writers,       \* ledger: the append_to_dataset calls in progress, per process
    ops,           \* ledger: number of ledger operations started
    mode,          \* loops: "template" | "llm" (generate_problem.py) | "planner" (test_planner_repair.py)
    pc,            \* loops: "start" | "generate" | "verify" | "fallback" | "fallback_verify" | "planner" | "repair" | "repair_call" | "done"
    attempt,       \* loops: the loop variable of "for attempt in range(1, MAX_RETRIES + 1)"
    baseTemp,      \* loops: the configured sampling temperature, in hundredths
    temps,         \* loops (history): the temperature each generation call sampled with, in hundredths
    prompt,        \* loops: the prompt of the next generation call
    last_problem_text, \* loops: the candidate of the latest generation call
    outputFile,    \* loops: the content of the problem file (None: not written)
    lastVal,       \* loops: what the latest verifier or planner call returned
    genCalls,      \* loops (history): number of llm.get_completion calls
    verifyCalls,   \* loops (history): number of run_val / run_planner calls
    precheckFails, \* loops (history): number of attempts quick_pddl_checks rejected
    rejections,    \* loops (history): number of attempts rejected by the pre-check, the verifier or the planner
    outcome,       \* loops: how main() ended
    caller,        \* generation adapter: the state of one get_completion call
    batch,         \* drivers: the position of main() of run_validate.py in its batch
    demo,          \* drivers: the position of main() of demo.py in its batch
    planCmd        \* drivers: the state of one run of generate_and_validate.py

classifierVars == <<text, parsed, cpc>>
ledgerVars == <<datasetExists, ledger, summary, lastOp, lastRecord, appended, writers, ops>>
loopVars == <<mode, pc, attempt, baseTemp, temps, prompt, last_problem_text, outputFile,
              lastVal, genCalls, verifyCalls, precheckFails, rejections, outcome>>
callerVars == <<caller>>
driverVars == <<batch, demo, planCmd>>
vars == <<classifierVars, ledgerVars, loopVars, callerVars, driverVars>>

-----------------------------------------------------------------------------
(* Bounds of the model *)

\* Longest classifier input, counted in vocabulary pieces.
MaxPieces == 3

\* Number of ledger operations a run is followed for.
MaxOps == 4

-----------------------------------------------------------------------------
(* Python string primitives on character sequences *)

\* Python's None, where a text is expected ("None" is not a character).
None == <<"None">>

MinOf(S) == CHOOSE m \in S : \A n \in S : m <= n
MaxOf(S) == CHOOSE m \in S : \A n \in S : m >= n

UpperChars ==
    <<"A","B","C","D","E","F","G","H","I","J","K","L","M",
      "N","O","P","Q","R","S","T","U","V","W","X","Y","Z">>
LowerChars ==
    <<"a","b","c","d","e","f","g","h","i","j","k","l","m",
      "n","o","p","q","r","s","t","u","v","w","x","y","z">>

\* str.lower() on one character.
LowerChar(c) ==
    IF \E i \in 1..26 : UpperChars[i] = c
    THEN LowerChars[CHOOSE i \in 1..26 : UpperChars[i] = c]
    ELSE c

\* str.lower()
ToLower(s) == [i \in 1..Len(s) |-> LowerChar(s[i])]

\* The characters of the alphabet that str.strip() removes and \s matches.
Whitespace == {" ", "\t", "\n", "\r"}

\* The characters of the alphabet at which str.splitlines() breaks a line.
LineBreaks == {"\n", "\r"}

\* str.strip()
Strip(s) ==
    LET keep == {i \in 1..Len(s) : s[i] \notin Whitespace}
    IN  IF keep = {} THEN <<>> ELSE SubSeq(s, MinOf(keep), MaxOf(keep))

\* s[:n]
Prefix(s, n) == SubSeq(s, 1, IF Len(s) < n THEN Len(s) ELSE n)

\* A plain (literal) pattern p matches s at position i.
MatchAt(p, s, i) ==
    /\ i >= 1
    /\ i + Len(p) - 1 <= Len(s)
    /\ \A j \in 1..Len(p) : s[i + j - 1] = p[j]

\* `p in s`
Contains(p, s) == \E i \in 1..(Len(s) - Len(p) + 1) : MatchAt(p, s, i)

\* s.startswith(p)
StartsWith(s, p) == MatchAt(p, s, 1)

\* str.splitlines(): breaks at \n, \r and \r\n; no empty last line.
RECURSIVE SplitLinesFrom(_, _, _, _)
SplitLinesFrom(s, i, cur, acc) ==
    IF i > Len(s)
    THEN IF cur = <<>> THEN acc ELSE Append(acc, cur)
    ELSE IF s[i] = "\r" /\ i < Len(s) /\ s[i + 1] = "\n"
         THEN SplitLinesFrom(s, i + 2, <<>>, Append(acc, cur))
         ELSE IF s[i] \in LineBreaks
              THEN SplitLinesFrom(s, i + 1, <<>>, Append(acc, cur))
              ELSE SplitLinesFrom(s, i + 1, Append(cur, s[i]), acc)

SplitLines(s) == SplitLinesFrom(s, 1, <<>>, <<>>)

\* sep.join(lines)
RECURSIVE Join(_, _)
Join(lines, sep) ==
    IF Len(lines) = 0 THEN <<>>
    ELSE IF Len(lines) = 1 THEN lines[1]
    ELSE lines[1] \o sep \o Join(Tail(lines), sep)

-----------------------------------------------------------------------------
(* Values of the variables a specification does not use *)

NoSummary == [written |-> FALSE]
NoRecord == [task_id |-> "None"]

LedgerIdle ==
    /\ datasetExists = FALSE
    /\ ledger = <<>>
    /\ summary = NoSummary
    /\ lastOp = "none"
    /\ lastRecord = NoRecord
    /\ appended = {}
    /\ writers = <<>>
    /\ ops = 0

CallerIdle == caller = [at |-> "idle"]

DriverIdle ==
    /\ batch = [pc |-> "idle"]
    /\ demo = [pc |-> "idle"]
    /\ planCmd = [pc |-> "idle"]

ClassifierIdle ==
    /\ text = <<>>
    /\ parsed = [success |-> FALSE, error_type |-> "None",
                 error_signature |-> <<"None">>, message |-> <<"None">>]
    /\ cpc = "idle"

NoPrompt ==
    [template |-> "none", task_text |-> <<"None">>, rules_text |-> <<"None">>,
     app_text |-> <<"None">>, domain_text |-> <<"None">>,
     previous_problem |-> <<"None">>, error |-> <<"None">>]
NoVal == [is_valid |-> FALSE, output |-> <<"None">>]
Running == [how |-> "running", msg |-> "none"]

LoopIdle ==
    /\ mode = "idle"
    /\ pc = "idle"
    /\ attempt = 0
    /\ baseTemp = 0
    /\ temps = <<>>
    /\ prompt = NoPrompt
    /\ last_problem_text = <<"None">>
    /\ outputFile = <<"None">>
    /\ lastVal = NoVal
    /\ genCalls = 0
    /\ verifyCalls = 0
    /\ precheckFails = 0
    /\ rejections = 0
    /\ outcome = Running

-----------------------------------------------------------------------------
(* case_demo/run_validate.py: the VAL output classifier *)

PAT_unsatisfied_precondition ==
    <<"u","n","s","a","t","i","s","f","i","e","d"," ","p","r","e","c","o","n","d","i","t","i","o","n">>
PAT_type_problem ==
    <<"t","y","p","e"," ","p","r","o","b","l","e","m">>
PAT_bad_plan_description ==
    <<"b","a","d"," ","p","l","a","n"," ","d","e","s","c","r","i","p","t","i","o","n">>
PAT_bad_plan ==
    <<"b","a","d"," ","p","l","a","n">>
PAT_failed_plans ==
    <<"f","a","i","l","e","d"," ","p","l","a","n","s">>
PAT_parser ==
    <<"p","a","r","s","e","r">>
PAT_failed_to_read ==
    <<"f","a","i","l","e","d"," ","t","o"," ","r","e","a","d">>
PAT_segmentation_fault ==
    <<"s","e","g","m","e","n","t","a","t","i","o","n"," ","f","a","u","l","t">>
\* The second alternative of the crash pattern: nine non-ASCII characters,
\* written here by their code points.
PAT_non_ascii_crash ==
    <<"U+00E6","U+00AE","U+00B5","U+00E9","U+201D","U+2122","U+00E8","U+00AF","U+00AF">>
PAT_core_dumped ==
    <<"c","o","r","e"," ","d","u","m","p","e","d">>
STR_plan_valid ==
    <<"p","l","a","n"," ","v","a","l","i","d">>
STR_Plan_valid ==
    <<"P","l","a","n"," ","v","a","l","i","d">>
STR_Unrecognized ==
    <<"U","n","r","e","c","o","g","n","i","z","e","d"," ","e","r","r","o","r"," ","p","a","t","t","e","r","n">>
STR_type_checking ==
    <<"t","y","p","e","-","c","h","e","c","k","i","n","g">>
STR_passes_type_checking ==
    <<".",".",".","a","c","t","i","o","n"," ","p","a","s","s","e","s"," ","t","y","p","e"," ","c","h","e","c","k","i","n","g">>

\* (mutant) The registry with the fourth row tagged with a kind outside the
\* closed enumeration.
ERROR_PATTERNS_OpenKind ==
    << [tag |-> "unsatisfied_precondition", alts |-> <<PAT_unsatisfied_precondition>>],
       [tag |-> "type_error",               alts |-> <<PAT_type_problem>>],
       [tag |-> "bad_plan",                 alts |-> <<PAT_bad_plan_description>>],
       [tag |-> "plan_error",               alts |-> <<PAT_bad_plan>>],
       [tag |-> "bad_plan",                 alts |-> <<PAT_failed_plans>>],
       [tag |-> "parser_error",             alts |-> <<PAT_parser>>],
       [tag |-> "parser_error",             alts |-> <<PAT_failed_to_read>>],
       [tag |-> "segfault",
        alts |-> <<PAT_segmentation_fault, PAT_non_ascii_crash, PAT_core_dumped>>] >>

\* (mutant) The registry with a row for the success text added to it.
ERROR_PATTERNS_ValidRow ==
    << [tag |-> "valid",                    alts |-> <<STR_plan_valid>>],
       [tag |-> "unsatisfied_precondition", alts |-> <<PAT_unsatisfied_precondition>>],
       [tag |-> "type_error",               alts |-> <<PAT_type_problem>>],
       [tag |-> "bad_plan",                 alts |-> <<PAT_bad_plan_description>>],
       [tag |-> "bad_plan",                 alts |-> <<PAT_bad_plan>>],
       [tag |-> "bad_plan",                 alts |-> <<PAT_failed_plans>>],
       [tag |-> "parser_error",             alts |-> <<PAT_parser>>],
       [tag |-> "parser_error",             alts |-> <<PAT_failed_to_read>>],
       [tag |-> "segfault",
        alts |-> <<PAT_segmentation_fault, PAT_non_ascii_crash, PAT_core_dumped>>] >>

\* The ordered pattern registry: (tag, alternatives of the regular expression).
\* Every pattern is a literal or an alternation of literals.
ERROR_PATTERNS ==
    << [tag |-> "unsatisfied_precondition", alts |-> <<PAT_unsatisfied_precondition>>],
       [tag |-> "type_error",               alts |-> <<PAT_type_problem>>],
       [tag |-> "bad_plan",                 alts |-> <<PAT_bad_plan_description>>],
       [tag |-> "bad_plan",                 alts |-> <<PAT_bad_plan>>],
       [tag |-> "bad_plan",                 alts |-> <<PAT_failed_plans>>],
       [tag |-> "parser_error",             alts |-> <<PAT_parser>>],
       [tag |-> "parser_error",             alts |-> <<PAT_failed_to_read>>],
       [tag |-> "segfault",
        alts |-> <<PAT_segmentation_fault, PAT_non_ascii_crash, PAT_core_dumped>>] >>

\* Lines of context kept before the matching line, and the offset of the
\* slice's end from it.
CONTEXT_BEFORE == 5
CONTEXT_END == 10
\* Length of the signature when no single line matches, and of the message.
SIGNATURE_FALLBACK_LEN == 800
MESSAGE_LEN == 2000

\* re.search(pattern, s, re.IGNORECASE) for a pattern of lower-case literals.
ReSearch(alts, s) ==
    LET low == ToLower(s)
    IN  \E k \in 1..Len(alts) : Contains(alts[k], low)

\* (mutant) The scan keeps the last matching row instead of returning at
\* the first one.
RECURSIVE ScanPatterns_LastMatch(_, _)
ScanPatterns_LastMatch(t, k) ==
    IF k > Len(ERROR_PATTERNS)
    THEN [tag |-> "unknown", snippet |-> None]
    ELSE LET rest == ScanPatterns_LastMatch(t, k + 1)
         IN  IF rest.tag # "unknown" \/ ~ReSearch(ERROR_PATTERNS[k].alts, ToLower(t))
             THEN rest
             ELSE [tag |-> ERROR_PATTERNS[k].tag, snippet |-> Strip(t)]

\* extract_error_signature: the loop over ERROR_PATTERNS from row k on.
RECURSIVE ScanPatterns(_, _)
ScanPatterns(t, k) ==
    IF k > Len(ERROR_PATTERNS)
    THEN [tag |-> "unknown", snippet |-> None]
    ELSE LET row == ERROR_PATTERNS[k]
         IN  IF ~ReSearch(row.alts, ToLower(t))
             THEN ScanPatterns(t, k + 1)
             ELSE LET lines == SplitLines(t)
                      hits  == {i \in 1..Len(lines) : ReSearch(row.alts, lines[i])}
                  IN  IF hits # {}
                      THEN LET idx    == MinOf(hits) - 1
                               start  == IF idx - CONTEXT_BEFORE > 0
                                         THEN idx - CONTEXT_BEFORE ELSE 0
                               finish == IF idx + CONTEXT_END < Len(lines)
                                         THEN idx + CONTEXT_END ELSE Len(lines)
                           IN  [tag     |-> row.tag,
                                snippet |-> Strip(Join(SubSeq(lines, start + 1, finish),
                                                       <<"\n">>))]
                      ELSE [tag     |-> row.tag,
                            snippet |-> Strip(Prefix(t, SIGNATURE_FALLBACK_LEN))]

\* (mutant) A scan that falls back to the kind of the last row.
extract_error_signature_DefaultLastRow(t) ==
    LET found == ScanPatterns(t, 1)
    IN  IF found.tag = "unknown"
        THEN [tag |-> ERROR_PATTERNS[Len(ERROR_PATTERNS)].tag, snippet |-> None]
        ELSE found

extract_error_signature(t) == ScanPatterns(t, 1)

\* (mutant) The success test without re.MULTILINE: ^ only at the start of
\* the text, $ only at its end or before a final "\n".
PlanValidSearch_NoMultiline(lower) ==
    \E i \in 1..(Len(lower) - Len(STR_plan_valid) + 1) :
        /\ MatchAt(STR_plan_valid, lower, i)
        /\ \A k \in 1..(i - 1) : lower[k] \in Whitespace
        /\ \A k \in (i + Len(STR_plan_valid))..Len(lower) : lower[k] \in Whitespace

\* re.search(r"^\s*plan valid\s*$", lower, re.MULTILINE): an occurrence of
\* "plan valid" with only whitespace between a line start (the start of the
\* text or just after "\n") and it, and only whitespace between it and a line
\* end (the end of the text or just before "\n").
PlanValidSearch(lower) ==
    \E i \in 1..(Len(lower) - Len(STR_plan_valid) + 1) :
        /\ MatchAt(STR_plan_valid, lower, i)
        /\ \E q \in 1..i :
              /\ q = 1 \/ lower[q - 1] = "\n"
              /\ \A k \in q..(i - 1) : lower[k] \in Whitespace
        /\ LET after == i + Len(STR_plan_valid)
           IN  \E e \in after..(Len(lower) + 1) :
                  /\ e = Len(lower) + 1 \/ lower[e] = "\n"
                  /\ \A k \in after..(e - 1) : lower[k] \in Whitespace

\* The condition of the list comprehension that drops the noise lines.
NotNoiseLine(line) ==
    /\ ~StartsWith(ToLower(line), STR_type_checking)
    /\ ~Contains(STR_passes_type_checking, ToLower(line))

\* (mutant) The text with every line kept.
CleanedText_Raw(t) == Strip(Join(SplitLines(t), <<"\n">>))

\* cleaned_text of parse_val_output.
CleanedText(t) == Strip(Join(SelectSeq(SplitLines(t), NotNoiseLine), <<"\n">>))

\* The dict parse_val_output starts from.
UnparsedRecord ==
    [success |-> FALSE, error_type |-> "None",
     error_signature |-> None, message |-> None]

parse_val_output(t) ==
    IF PlanValidSearch(ToLower(t))
    THEN [success         |-> TRUE,
          error_type      |-> "valid",
          error_signature |-> STR_Plan_valid,
          message         |-> STR_Plan_valid]
    ELSE LET cleaned == CleanedText(t)
             found   == extract_error_signature(cleaned)
         IN  [success         |-> FALSE,
              error_type      |-> found.tag,
              error_signature |-> IF found.snippet = None \/ found.snippet = <<>>
                                  THEN STR_Unrecognized
                                  ELSE found.snippet,
              message         |-> Prefix(cleaned, MESSAGE_LEN)]

-----------------------------------------------------------------------------
(* Classifier inputs: every concatenation of at most MaxPieces pieces *)

Pieces ==
    << <<"P","l","a","n"," ","V","a","l","i","d">>,
       <<" ">>,
       <<"\n">>,
       <<"\r">>,
       <<"x">>,
       <<"U","n","s","a","t","i","s","f","i","e","d"," ","P","r","e","c","o","n","d","i","t","i","o","n">>,
       <<"p","a","r","s","e","r">>,
       <<"B","a","d"," ","p","l","a","n">>,
       <<"T","y","p","e","-","c","h","e","c","k","i","n","g">>,
       <<".",".",".","a","c","t","i","o","n"," ","p","a","s","s","e","s"," ","t","y","p","e"," ","c","h","e","c","k","i","n","g">>,
       <<"\n","a","\n","b","\n","c","\n","d","\n","e","\n","f","\n","g","\n","h","\n","i","\n","j","\n","k","\n">> >>

RECURSIVE Concat(_, _)
Concat(ix, from) ==
    IF from > Len(ix) THEN <<>> ELSE Pieces[ix[from]] \o Concat(ix, from + 1)

Texts ==
    {Concat(ix, 1) :
        ix \in UNION {[1..n -> 1..Len(Pieces)] : n \in 0..MaxPieces}}

ClassifyInit ==
    /\ text \in Texts
    /\ parsed = UnparsedRecord
    /\ cpc = "ready"
    /\ LedgerIdle
    /\ LoopIdle
    /\ CallerIdle
    /\ DriverIdle

\* One call parse_val_output(text); the classifier may be called again on
\* the same text.
ParseValOutput ==
    /\ cpc \in {"ready", "parsed"}
    /\ parsed' = parse_val_output(text)
    /\ cpc' = "parsed"
    /\ UNCHANGED text
    /\ UNCHANGED <<ledgerVars, loopVars, callerVars, driverVars>>

ClassifyNext == ParseValOutput

SpecClassify == ClassifyInit /\ [][ClassifyNext]_vars

-----------------------------------------------------------------------------
(* Claims about the classifier *)

\* The kinds of the closed enumeration.
ErrorKinds ==
    {"valid", "unsatisfied_precondition", "type_error", "bad_plan",
     "parser_error", "segfault", "unknown"}

\* t has a line (lines end at "\n") that equals "plan valid" once its case
\* and its surrounding whitespace are ignored.
HasPlanValidLine(t) ==
    \E a \in 1..(Len(t) + 1) : \E b \in (a - 1)..Len(t) :
        /\ a = 1 \/ t[a - 1] = "\n"
        /\ b = Len(t) \/ t[b + 1] = "\n"
        /\ \A k \in a..b : t[k] # "\n"
        /\ Strip(ToLower(SubSeq(t, a, b))) = STR_plan_valid

\* Some row of the registry matches t.
SomeRowMatches(t) == \E k \in 1..Len(ERROR_PATTERNS) : ReSearch(ERROR_PATTERNS[k].alts, t)

\* The kind of the earliest row of the registry whose pattern occurs in t.
EarliestRowKind(t) ==
    ERROR_PATTERNS[MinOf({k \in 1..Len(ERROR_PATTERNS) :
                            ReSearch(ERROR_PATTERNS[k].alts, t)})].tag

\* C1: every text with a "plan valid" line (any case, any surrounding
\* whitespace) is classified success = true, kind "valid", whatever else it
\* holds.
C1_PlanValidLineWins ==
    (cpc = "parsed" /\ HasPlanValidLine(text))
        => (parsed.success = TRUE /\ parsed.error_type = "valid")

\* C1 witness: a text with a "plan valid" line and an error pattern has been
\* classified valid.
C1_Witness ==
    /\ cpc = "parsed"
    /\ HasPlanValidLine(text)
    /\ SomeRowMatches(text)
    /\ Len(text) > Len(STR_plan_valid) + Len(PAT_bad_plan)
    /\ parsed.error_type = "valid"

\* C2 as stated: without a "plan valid" line the kind is that of the earliest
\* row whose pattern occurs in the raw text, and a raw text with both
\* "unsatisfied precondition" and "parser" is unsatisfied_precondition.
C2_FirstMatchOnRawText ==
    (cpc = "parsed" /\ ~HasPlanValidLine(text))
        => /\ SomeRowMatches(text) => parsed.error_type = EarliestRowKind(text)
           /\ (/\ ReSearch(<<PAT_unsatisfied_precondition>>, text)
               /\ ReSearch(<<PAT_parser>>, text))
                 => parsed.error_type = "unsatisfied_precondition"

\* C2 amended: without a "plan valid" line the kind is that of the earliest
\* row whose pattern occurs in the text left after the noise lines are
\* removed ("unknown" when no row matches it), and such a text with both
\* "unsatisfied precondition" and "parser" is unsatisfied_precondition.
C2_FirstMatchOnCleanedText ==
    (cpc = "parsed" /\ ~HasPlanValidLine(text))
        => LET cleaned == CleanedText(text)
           IN  /\ parsed.error_type =
                    IF SomeRowMatches(cleaned) THEN EarliestRowKind(cleaned)
                    ELSE "unknown"
               /\ (/\ ReSearch(<<PAT_unsatisfied_precondition>>, cleaned)
                   /\ ReSearch(<<PAT_parser>>, cleaned))
                     => parsed.error_type = "unsatisfied_precondition"

\* C2 witness: a text whose cleaned form holds "parser" before "unsatisfied
\* precondition" has been classified unsatisfied_precondition.
C2_Witness ==
    /\ cpc = "parsed"
    /\ ~HasPlanValidLine(text)
    /\ ReSearch(<<PAT_unsatisfied_precondition>>, CleanedText(text))
    /\ StartsWith(ToLower(CleanedText(text)), PAT_parser)
    /\ parsed.error_type = "unsatisfied_precondition"

\* A record parse_val_output may return.
WellFormedRecord(r) ==
    /\ r.success \in BOOLEAN
    /\ r.error_type \in ErrorKinds
    /\ r.error_signature # None /\ r.error_signature # <<>>
    /\ r.message # None

\* C3: the classifier returns one record for every text, with a kind of the
\* closed enumeration, and a second call on the same text returns an equal
\* record.
C3_TotalClosedDeterministic ==
    /\ [](cpc = "parsed" => WellFormedRecord(parsed))
    /\ [][(cpc = "parsed" /\ cpc' = "parsed") => parsed' = parsed]_vars

\* C3 witness: a text with visible content that matches no row has been
\* classified "unknown".
C3_Witness ==
    /\ cpc = "parsed"
    /\ Len(parsed.message) > 0
    /\ parsed.error_type = "unknown"
    /\ parsed.error_signature = STR_Unrecognized

\* C4: in every returned record success is true exactly when the kind is
\* "valid".
C4_SuccessIffValid ==
    cpc = "parsed" => (parsed.success <=> parsed.error_type = "valid")

\* C4 witness: a text that holds "plan valid" but not as a line of its own
\* has been classified unsuccessful with a kind other than "valid".
C4_Witness ==
    /\ cpc = "parsed"
    /\ Contains(STR_plan_valid, ToLower(text))
    /\ ~parsed.success
    /\ parsed.error_type # "valid"

-----------------------------------------------------------------------------
(* case_demo/run_validate.py: the result ledger (results/dataset.jsonl) *)

\* The mark a digest starts with.
DIGEST_MARK == <<"s", "h", "a", "1", ":">>

\* sha1(text): the hex digest of the text. The model keeps what the ledger
\* relies on: the digest is a function of the text alone, it is never empty
\* (never falsy), and two different texts never share one (SHA-1 has no
\* collision on texts a validator prints). The digest of a text is written
\* as the mark followed by the text it was computed from.
sha1(t) == DIGEST_MARK \o t

\* Task ids (parse_task_id of "1.problem.pddl", "2.problem.pddl").
Tasks == {"1", "2"}

\* What a finished `validate` process can hand back: exit code, stdout, stderr.
ProcResults ==
    { [exit_code |-> 0, stdout |-> <<"P","l","a","n"," ","v","a","l","i","d","\n">>,
                        stderr |-> <<>>],
      [exit_code |-> 1, stdout |-> <<"B","a","d"," ","p","l","a","n","\n">>,
                        stderr |-> <<>>],
      [exit_code |-> 1, stdout |-> <<>>,
                        stderr |-> <<"p","a","r","s","e","r">>],
      [exit_code |-> 0, stdout |-> <<"x">>,
                        stderr |-> <<>>] }

\* datetime.now().isoformat() values.
Timestamps == {"T1"}

\* The record run_validate builds from a finished process (the path and
\* command fields are functions of task_id and are left out).
RunRecord(task_id, res, ts) ==
    LET combined_output == res.stdout \o <<"\n">> \o res.stderr
    IN  [task_id     |-> task_id,
         timestamp   |-> ts,
         success     |-> (res.exit_code = 0),
         exit_code   |-> res.exit_code,
         output_hash |-> sha1(combined_output),
         parsed      |-> parse_val_output(combined_output),
         stdout      |-> res.stdout,
         stderr      |-> res.stderr]

Records == {RunRecord(t, r, ts) : t \in Tasks, r \in ProcResults, ts \in Timestamps}

\* The compact line append_to_dataset writes (no stdout/stderr).
CompactEntry(rec) ==
    [task_id     |-> rec.task_id,
     success     |-> rec.success,
     exit_code   |-> rec.exit_code,
     output_hash |-> rec.output_hash,
     parsed      |-> rec.parsed,
     timestamp   |-> rec.timestamp]

\* (mutant) The hashes are read under a key the lines do not have.
load_existing_hashes_WrongKey == {}

\* load_existing_hashes(): the truthy output_hash values of the file's lines;
\* empty when the file does not exist.
load_existing_hashes ==
    IF ~datasetExists THEN {}
    ELSE {ledger[i].output_hash : i \in {j \in 1..Len(ledger) : ledger[j].output_hash # <<>>}}

\* (mutant) The duplicate test looks at the task id instead of the hash.
IsDuplicate_ByTask(rec, existing_hashes) ==
    \E i \in 1..Len(ledger) : ledger[i].task_id = rec.task_id

\* `h in existing_hashes` of append_to_dataset.
IsDuplicate(rec, existing_hashes) == rec.output_hash \in existing_hashes

\* (mutant) The new line is put in front of the file's lines.
WriteOrSkip_Prepend(rec, existing_hashes) ==
    /\ IF IsDuplicate(rec, existing_hashes)
       THEN /\ lastOp' = "skipped"
            /\ UNCHANGED <<ledger, datasetExists>>
       ELSE /\ lastOp' = "appended"
            /\ ledger' = <<CompactEntry(rec)>> \o ledger
            /\ datasetExists' = TRUE
    /\ lastRecord' = rec
    /\ appended' = appended \cup {rec.output_hash}

\* append_to_dataset after existing_hashes was loaded: skip a duplicate,
\* else append the compact line to the file.
WriteOrSkip(rec, existing_hashes) ==
    /\ IF IsDuplicate(rec, existing_hashes)
       THEN /\ lastOp' = "skipped"
            /\ UNCHANGED <<ledger, datasetExists>>
       ELSE /\ lastOp' = "appended"
            /\ ledger' = Append(ledger, CompactEntry(rec))
            /\ datasetExists' = TRUE
    /\ lastRecord' = rec
    /\ appended' = appended \cup {rec.output_hash}

\* append_to_dataset(record), run without interruption.
AppendToDataset(rec) ==
    /\ ops < MaxOps
    /\ ops' = ops + 1
    /\ WriteOrSkip(rec, load_existing_hashes)
    /\ UNCHANGED <<summary, writers>>
    /\ UNCHANGED <<classifierVars, loopVars, callerVars, driverVars>>

\* reset_dataset(): truncate (or create) the file.
ResetDataset ==
    /\ ops < MaxOps
    /\ ops' = ops + 1
    /\ ledger' = <<>>
    /\ datasetExists' = TRUE
    /\ lastOp' = "reset"
    /\ lastRecord' = NoRecord
    /\ appended' = {}
    /\ UNCHANGED <<summary, writers>>
    /\ UNCHANGED <<classifierVars, loopVars, callerVars, driverVars>>

\* (mutant) The valid lines counted by the exit status of the run.
CountValid_ByExitCode(lines) == Cardinality({i \in 1..Len(lines) : lines[i].success})

\* Number of lines generate_summary counts as valid: parsed.success is true.
CountValid(lines) == Cardinality({i \in 1..Len(lines) : lines[i].parsed.success})

\* The key generate_summary counts a line under.
SummaryKey(entry) ==
    IF entry.parsed.success THEN "valid" ELSE entry.parsed.error_type

\* round(valid / total, 3) in thousandths; 0 when total is 0. (No ledger of
\* the model has a quotient that lies halfway between two thousandths.)
ValidRate(valid, total) ==
    IF total > 0 THEN (2000 * valid + total) \div (2 * total) ELSE 0

\* The summary document generate_summary computes from the file's lines.
Summarize(lines) ==
    LET total == Len(lines)
        valid == CountValid(lines)
        keys  == {SummaryKey(lines[i]) : i \in 1..total}
    IN  [written        |-> TRUE,
         total_records  |-> total,
         valid_plans    |-> valid,
         invalid_plans  |-> total - valid,
         valid_rate     |-> ValidRate(valid, total),
         classification |->
            [k \in keys |-> Cardinality({i \in 1..total : SummaryKey(lines[i]) = k})]]

\* generate_summary(): nothing when the file does not exist.
GenerateSummary ==
    /\ ops < MaxOps
    /\ ops' = ops + 1
    /\ summary' = IF datasetExists THEN Summarize(ledger) ELSE summary
    /\ lastOp' = "summary"
    /\ lastRecord' = NoRecord
    /\ UNCHANGED <<datasetExists, ledger, appended, writers>>
    /\ UNCHANGED <<classifierVars, loopVars, callerVars, driverVars>>

LedgerInit ==
    /\ ClassifierIdle
    /\ LedgerIdle
    /\ LoopIdle
    /\ CallerIdle
    /\ DriverIdle

LedgerNext ==
    \/ \E rec \in Records : AppendToDataset(rec)
    \/ ResetDataset
    \/ GenerateSummary

\* The ledger operations called one after the other, in any order.
SpecLedger == LedgerInit /\ [][LedgerNext]_vars

\* Processes that may run append_to_dataset on the same file at once.
Procs == {"p1", "p2"}

IdleWriter == [pc |-> "idle"]

\* First statement of append_to_dataset in process p: load_existing_hashes().
LoadHashes(p, rec) ==
    /\ writers[p].pc = "idle"
    /\ ops < MaxOps
    /\ ops' = ops + 1
    /\ writers' = [writers EXCEPT ![p] =
                      [pc |-> "loaded", rec |-> rec,
                       existing_hashes |-> load_existing_hashes]]
    /\ UNCHANGED <<datasetExists, ledger, summary, lastOp, lastRecord, appended>>
    /\ UNCHANGED <<classifierVars, loopVars, callerVars, driverVars>>

\* Rest of append_to_dataset in process p: the duplicate test against the
\* hashes it loaded, then the write.
WriteLine(p) ==
    /\ writers[p].pc = "loaded"
    /\ WriteOrSkip(writers[p].rec, writers[p].existing_hashes)
    /\ writers' = [writers EXCEPT ![p] = IdleWriter]
    /\ UNCHANGED <<summary, ops>>
    /\ UNCHANGED <<classifierVars, loopVars, callerVars, driverVars>>

LedgerConcInit ==
    /\ ClassifierIdle
    /\ LoopIdle
    /\ CallerIdle
    /\ DriverIdle
    /\ datasetExists = FALSE
    /\ ledger = <<>>
    /\ summary = NoSummary
    /\ lastOp = "none"
    /\ lastRecord = NoRecord
    /\ appended = {}
    /\ writers = [p \in Procs |-> IdleWriter]
    /\ ops = 0

LedgerConcNext ==
    \/ \E p \in Procs : \E rec \in Records : LoadHashes(p, rec)
    \/ \E p \in Procs : WriteLine(p)

\* append_to_dataset called by processes that share the file; the code takes
\* no lock, so the two statements of one call interleave with another's.
SpecLedgerConc == LedgerConcInit /\ [][LedgerConcNext]_vars

-----------------------------------------------------------------------------
(* Claims about the ledger *)

\* Number of ledger lines with hash h.
EntriesWithHash(lines, h) ==
    Cardinality({i \in 1..Len(lines) : lines[i].output_hash = h})

\* No two ledger lines share an output_hash.
HashesUnique(lines) ==
    \A i, j \in 1..Len(lines) : i # j => lines[i].output_hash # lines[j].output_hash

\* C5: when append_to_dataset is called twice in a row with the same record,
\* the second call is skipped as a duplicate and leaves the ledger as it
\* was, with exactly one line of that record's hash.
C5_AppendIdempotent ==
    [][ (/\ lastOp \in {"appended", "skipped"}
         /\ lastOp' \in {"appended", "skipped"}
         /\ ops' = ops + 1
         /\ lastRecord' = lastRecord)
        => (/\ lastOp' = "skipped"
            /\ ledger' = ledger
            /\ EntriesWithHash(ledger', lastRecord.output_hash) = 1) ]_vars

\* C5 witness: a record was appended and the next call, with the same record,
\* was skipped; the ledger holds its compact line.
C5_Witness ==
    /\ lastOp = "skipped"
    /\ ops = 2
    /\ ledger = <<CompactEntry(lastRecord)>>

\* C6: after any sequence of appends and resets no two lines share an
\* output_hash, and the total summarize reports is the number of distinct
\* hashes appended since the last reset.
C6_UniqueHashesAndTotal ==
    /\ HashesUnique(ledger)
    /\ Summarize(ledger).total_records = Cardinality(appended)
    /\ (lastOp = "summary" /\ datasetExists)
          => (summary.written /\ summary.total_records = Cardinality(appended))

\* C6 witness: after a reset, two distinct hashes were appended, and the
\* summary written afterwards reports 2.
C6_Witness ==
    /\ lastOp = "summary"
    /\ ops = MaxOps
    /\ summary.written
    /\ summary.total_records = 2
    /\ Cardinality(appended) = 2

\* C7 as stated: whatever the interleaving of concurrent append calls, the
\* ledger never holds two lines of one output_hash.
C7_ConcurrentAppendsKeepHashUnique ==
    \A i \in 1..Len(ledger) : EntriesWithHash(ledger, ledger[i].output_hash) <= 1

-----------------------------------------------------------------------------
(* problem_validation/generate_problem.py: pure helpers *)

STR_fence ==
    <<"U+0060","U+0060","U+0060">>
STR_pddl ==
    <<"p","d","d","l">>
STR_define ==
    <<"(","d","e","f","i","n","e">>
STR_types ==
    <<"(",":","t","y","p","e","s">>

\* str.lstrip()
LStrip(s) ==
    LET keep == {i \in 1..Len(s) : s[i] \notin Whitespace}
    IN  IF keep = {} THEN <<>> ELSE SubSeq(s, MinOf(keep), Len(s))

\* str.strip(chars). The backtick is written "U+0060".
StripChars(s, chars) ==
    LET keep == {i \in 1..Len(s) : s[i] \notin chars}
    IN  IF keep = {} THEN <<>> ELSE SubSeq(s, MinOf(keep), MaxOf(keep))

\* s[n:]
Suffix(s, n) == SubSeq(s, n + 1, Len(s))

\* str.find(p) as a 1-based position; 0 when p does not occur (Python's -1).
Find(p, s) ==
    LET at == {i \in 1..(Len(s) - Len(p) + 1) : MatchAt(p, s, i)}
    IN  IF at = {} THEN 0 ELSE MinOf(at)

\* s.split(sep), for a one-character separator.
RECURSIVE SplitOnFrom(_, _, _, _, _)
SplitOnFrom(s, sep, i, cur, acc) ==
    IF i > Len(s) THEN Append(acc, cur)
    ELSE IF s[i] = sep
         THEN SplitOnFrom(s, sep, i + 1, <<>>, Append(acc, cur))
         ELSE SplitOnFrom(s, sep, i + 1, Append(cur, s[i]), acc)

SplitOn(s, sep) == SplitOnFrom(s, sep, 1, <<>>, <<>>)

\* s.split(): the maximal runs of non-whitespace characters.
RECURSIVE SplitWordsFrom(_, _, _, _)
SplitWordsFrom(s, i, cur, acc) ==
    IF i > Len(s)
    THEN IF cur = <<>> THEN acc ELSE Append(acc, cur)
    ELSE IF s[i] \in Whitespace
         THEN SplitWordsFrom(s, i + 1, <<>>, IF cur = <<>> THEN acc ELSE Append(acc, cur))
         ELSE SplitWordsFrom(s, i + 1, Append(cur, s[i]), acc)

SplitWords(s) == SplitWordsFrom(s, 1, <<>>, <<>>)

\* s.replace(old, "")
RECURSIVE RemoveAllFrom(_, _, _)
RemoveAllFrom(s, old, i) ==
    IF i > Len(s) THEN <<>>
    ELSE IF MatchAt(old, s, i)
         THEN RemoveAllFrom(s, old, i + Len(old))
         ELSE <<s[i]>> \o RemoveAllFrom(s, old, i + 1)

RemoveAll(s, old) == RemoveAllFrom(s, old, 1)

DigitChars == <<"0","1","2","3","4","5","6","7","8","9">>

IsDigit(c) == \E d \in 1..10 : DigitChars[d] = c

DigitValue(c) == (CHOOSE d \in 1..10 : DigitChars[d] = c) - 1

RECURSIVE DigitsValue(_, _)
DigitsValue(s, acc) ==
    IF Len(s) = 0 THEN acc
    ELSE IF s[1] = "_" THEN DigitsValue(Tail(s), acc)
         ELSE DigitsValue(Tail(s), 10 * acc + DigitValue(s[1]))

\* int(s): surrounding whitespace, an optional sign, decimal digits with
\* single underscores between them; anything else raises ValueError.
ParseInt(s) ==
    LET t      == Strip(s)
        signed == Len(t) > 0 /\ t[1] \in {"+", "-"}
        body   == IF signed THEN Tail(t) ELSE t
        ok     == /\ Len(body) > 0
                  /\ \A i \in 1..Len(body) : IsDigit(body[i]) \/ body[i] = "_"
                  /\ IsDigit(body[1]) /\ IsDigit(body[Len(body)])
                  /\ \A i \in 1..(Len(body) - 1) : ~(body[i] = "_" /\ body[i + 1] = "_")
    IN  IF ~ok THEN [ok |-> FALSE, value |-> 0]
        ELSE [ok    |-> TRUE,
              value |-> IF signed /\ t[1] = "-" THEN 0 - DigitsValue(body, 0)
                        ELSE DigitsValue(body, 0)]

\* (mutant) The verdict taken from the exit code alone, as for a plan run.
run_val_ExitCodeOnly(proc) ==
    [is_valid |-> (proc.returncode = 0), output |-> Strip(proc.stdout)]

\* run_val(domain, problem) applied to what the `validate` process handed
\* back (returncode, stdout with stderr merged in): (is_valid, output).
run_val(proc) ==
    LET out      == Strip(proc.stdout)
        byCode   == [is_valid |-> (proc.returncode = 0), output |-> out]
        lines    == SplitLines(proc.stdout)
        errLines == {i \in 1..Len(lines) :
                        StartsWith(Strip(ToLower(lines[i])), <<"e","r","r","o","r","s",":">>)}
    IN  IF Contains(<<"p","a","r","s","e","r"," ","f","a","i","l","e","d"," ","t","o"," ",
                       "r","e","a","d"," ","f","i","l","e">>, ToLower(out))
        THEN [is_valid |-> FALSE, output |-> out]
        ELSE IF errLines = {} THEN byCode
        ELSE LET line_l   == Strip(ToLower(lines[MaxOf(errLines)]))
                 err_part == SplitOn(line_l, ",")[1]
                 err_num  == ParseInt(Strip(SplitOn(err_part, ":")[2]))
             IN  IF err_num.ok
                 THEN [is_valid |-> (err_num.value = 0), output |-> out]
                 ELSE byCode

\* str.isalnum() or "_", on one character of name.lower().
IsNameChar(c) ==
    \/ \E i \in 1..26 : LowerChars[i] = c
    \/ IsDigit(c)
    \/ c = "_"

\* sanitize_problem_name(name, fallback="problem")
sanitize_problem_name(name) ==
    LET cleaned == SelectSeq(ToLower(name), IsNameChar)
    IN  IF cleaned = <<>> THEN <<"p","r","o","b","l","e","m">> ELSE cleaned

\* extract_problem_pddl(text) of generate_problem.py
extract_problem_pddl(t0) ==
    LET t1 == Strip(t0)
        t2 == IF StartsWith(t1, STR_fence)
              THEN LET u == Strip(StripChars(t1, {"U+0060"}))
                   IN  IF StartsWith(ToLower(u), STR_pddl)
                       THEN LStrip(Suffix(u, 4)) ELSE u
              ELSE t1
        idx == Find(STR_define, ToLower(t2))
    IN  Strip(IF idx >= 1 THEN Suffix(t2, idx - 1) ELSE t2)

\* The parenthesis scan of quick_pddl_checks from position i with the
\* running balance: "close" (an extra ")" was met), "open" or "ok".
RECURSIVE BalanceScan(_, _, _)
BalanceScan(t, i, balance) ==
    IF i > Len(t) THEN (IF balance # 0 THEN "open" ELSE "ok")
    ELSE IF t[i] = "(" THEN BalanceScan(t, i + 1, balance + 1)
    ELSE IF t[i] = ")"
         THEN IF balance - 1 < 0 THEN "close" ELSE BalanceScan(t, i + 1, balance - 1)
         ELSE BalanceScan(t, i + 1, balance)

REQUIRED_SECTIONS ==
    <<<<":","d","o","m","a","i","n">>,
      <<"(",":","o","b","j","e","c","t","s">>,
      <<"(",":","i","n","i","t">>,
      <<"(",":","g","o","a","l">>>>

\* (mutant) The pre-check that accepts every candidate.
quick_pddl_checks_AcceptAll(t) == [ok |-> TRUE, err |-> <<>>]

\* quick_pddl_checks(text): (ok, message)
quick_pddl_checks(t) ==
    LET scan    == BalanceScan(t, 1, 0)
        missing == {k \in 1..Len(REQUIRED_SECTIONS) :
                       ~Contains(REQUIRED_SECTIONS[k], ToLower(t))}
        extra_close == <<"p","a","r","e","n","t","h","e","s","i","s"," ","i",
            "m","b","a","l","a","n","c","e"," ","d","e","t","e","c","t","e",
            "d"," ","(","e","x","t","r","a"," ","'",")","'",")">>
        extra_open == <<"p","a","r","e","n","t","h","e","s","i","s"," ","i",
            "m","b","a","l","a","n","c","e"," ","d","e","t","e","c","t","e",
            "d"," ","(","e","x","t","r","a"," ","'","(","'",")">>
        missing_section == <<"m","i","s","s","i","n","g"," ","r","e","q","u",
            "i","r","e","d"," ","s","e","c","t","i","o","n",":"," ">>
    IN  IF scan = "close" THEN [ok |-> FALSE, err |-> extra_close]
        ELSE IF scan = "open" THEN [ok |-> FALSE, err |-> extra_open]
        ELSE IF missing # {}
             THEN [ok  |-> FALSE,
                   err |-> missing_section \o REQUIRED_SECTIONS[MinOf(missing)]]
             ELSE [ok |-> TRUE, err |-> <<>>]

\* The lines extract_domain_types captures, scanning from line i.
RECURSIVE TypesBlock(_, _, _)
TypesBlock(lines, i, capture) ==
    IF i > Len(lines) THEN <<>>
    ELSE IF Contains(STR_types, lines[i])
         THEN <<lines[i]>> \o TypesBlock(lines, i + 1, TRUE)
         ELSE IF capture
              THEN IF Contains(<<")">>, lines[i])
                   THEN <<lines[i]>>
                   ELSE <<lines[i]>> \o TypesBlock(lines, i + 1, TRUE)
              ELSE TypesBlock(lines, i + 1, FALSE)

IsNotDash(tok) == tok # <<"-">>

\* extract_domain_types(domain_text)
extract_domain_types(domain_text) ==
    LET joined == Join(TypesBlock(SplitLines(domain_text), 1, FALSE), <<" ">>)
        bare   == RemoveAll(RemoveAll(joined, STR_types), <<")">>)
    IN  Strip(Join(SelectSeq(SplitWords(bare), IsNotDash), <<" ">>))

-----------------------------------------------------------------------------
(* generate_problem.py, test_planner_repair.py, llmcaller.py: artifacts,    *)
(* prompts and adapters of the repair loops                                 *)

\* PROBLEM_TEMPLATE, split at its {problem_name} field.
PROBLEM_TEMPLATE_head ==
    <<"(","d","e","f","i","n","e"," ","(","p","r","o","b","l","e","m"," ">>
PROBLEM_TEMPLATE_tail ==
    <<")","\n"," "," ","(",":","d","o","m","a","i","n"," ","m","o","b","i",
      "l","e","w","o","r","l","d","_","g","e","n","e","r","i","c",")","\n",
      "\n"," "," ","(",":","o","b","j","e","c","t","s","\n"," "," "," "," ",
      "h","o","m","e","_","s","c","r","e","e","n"," ","s","e","a","r","c","h",
      "_","s","c","r","e","e","n"," ","r","e","s","u","l","t","s","_","s","c",
      "r","e","e","n"," ","-"," ","s","c","r","e","e","n","\n"," "," "," ",
      " ","s","e","a","r","c","h","_","b","u","t","t","o","n"," ","b","a","c",
      "k","_","b","u","t","t","o","n"," ","-"," ","t","a","r","g","e","t",
      "\n"," "," "," "," ","s","e","a","r","c","h","_","f","i","e","l","d",
      " ","-"," ","f","i","e","l","d","\n"," "," "," "," ","q","u","e","r",
      "y","_","t","e","x","t"," ","-"," ","t","e","x","t","\n"," "," "," ",
      " ","s","u","c","c","e","s","s","_","s","t","a","t","u","s"," ","-"," ",
      "g","o","a","l","_","s","t","a","t","u","s","\n"," "," "," "," ","u",
      "p"," ","d","o","w","n"," ","-"," ","d","i","r","e","c","t","i","o","n",
      "\n"," "," ",")","\n","\n"," "," ","(",":","i","n","i","t","\n"," "," ",
      " "," ","(","a","t","-","s","c","r","e","e","n"," ","h","o","m","e","_",
      "s","c","r","e","e","n",")","\n","\n"," "," "," "," ","(","t","a","r",
      "g","e","t","-","v","i","s","i","b","l","e"," ","s","e","a","r","c","h",
      "_","b","u","t","t","o","n"," ","h","o","m","e","_","s","c","r","e","e",
      "n",")","\n"," "," "," "," ","(","f","i","e","l","d","-","v","i","s",
      "i","b","l","e"," ","s","e","a","r","c","h","_","f","i","e","l","d"," ",
      "h","o","m","e","_","s","c","r","e","e","n",")","\n","\n"," "," "," ",
      " ","(","c","l","i","c","k","-","t","r","a","n","s","i","t","i","o","n",
      " ","s","e","a","r","c","h","_","b","u","t","t","o","n"," ","h","o","m",
      "e","_","s","c","r","e","e","n"," ","s","e","a","r","c","h","_","s","c",
      "r","e","e","n",")","\n"," "," "," "," ","(","b","a","c","k","-","l",
      "i","n","k"," ","s","e","a","r","c","h","_","s","c","r","e","e","n"," ",
      "h","o","m","e","_","s","c","r","e","e","n",")","\n","\n"," "," "," ",
      " ","(","s","c","r","o","l","l","-","t","r","a","n","s","i","t","i","o",
      "n"," ","d","o","w","n"," ","s","e","a","r","c","h","_","s","c","r","e",
      "e","n"," ","r","e","s","u","l","t","s","_","s","c","r","e","e","n",")",
      "\n"," "," ",")","\n","\n"," "," ","(",":","g","o","a","l","\n"," "," ",
      " "," ","(","a","n","d","\n"," "," "," "," "," "," ","(","s","t","a",
      "t","u","s","-","s","e","t"," ","s","u","c","c","e","s","s","_","s","t",
      "a","t","u","s",")","\n"," "," "," "," ",")","\n"," "," ",")","\n",")">>

\* PROBLEM_TEMPLATE.format(problem_name=problem_name)
FormatProblemTemplate(problem_name) ==
    PROBLEM_TEMPLATE_head \o problem_name \o PROBLEM_TEMPLATE_tail

\* json.loads(raw_text) and parsed.get("problem_name", "") of the template
\* loop, on the shapes of response the model draws: the object {}, an object
\* with the one string member "problem_name" (no escapes in the string), the
\* array [], and text that is not JSON.  "other" is a JSON value without a
\* get method.
json_problem_name(raw_text) ==
    LET n == Len(raw_text)
        open == <<"{","\"","p","r","o","b","l","e","m","_","n","a","m","e","\"",":"," ","\"">>
        close == <<"\"","}">>
        inner == SubSeq(raw_text, Len(open) + 1, n - Len(close))
    IN  IF raw_text = <<"{", "}">>
        THEN [kind |-> "object", problem_name |-> <<>>]
        ELSE IF /\ n >= Len(open) + Len(close)
                /\ StartsWith(raw_text, open)
                /\ Suffix(raw_text, n - Len(close)) = close
                /\ \A i \in 1..Len(inner) : inner[i] \notin {"\"", "\\", "\n", "\r", "\t"}
        THEN [kind |-> "object", problem_name |-> inner]
        ELSE IF raw_text = <<"[", "]">>
        THEN [kind |-> "other", problem_name |-> None]
        ELSE [kind |-> "JSONDecodeError", problem_name |-> None]

\* The input files of one run.
TASK_TEXT == <<"o","p","e","n"," ","s","e","a","r","c","h">>
RULES_TEXT == <<"r","u","l","e","s">>
APP_TEXT == <<"a","p","p">>
DOMAIN_TEXT ==
    <<"(","d","e","f","i","n","e"," ","(","d","o","m","a","i","n"," ","d",")",
      "\n","(",":","t","y","p","e","s","\n"," ","s","c","r","e","e","n"," ",
      "f","i","e","l","d"," ","-"," ","o","b","j","e","c","t","\n",")","\n",
      ")">>

\* The prompt builders are f-strings; a prompt is modelled by the name of its
\* builder (the fixed text) and the values put into its fields.
build_name_prompt(task_text) ==
    [template |-> "build_name_prompt", task_text |-> task_text, rules_text |-> None,
     app_text |-> None, domain_text |-> None, previous_problem |-> None, error |-> None]

build_pddl_prompt(task_text, rules_text, app_text, domain_text) ==
    [template |-> "build_pddl_prompt", task_text |-> task_text, rules_text |-> rules_text,
     app_text |-> app_text, domain_text |-> domain_text, previous_problem |-> None,
     error |-> None]

\* (mutant) A repair step that sends the initial prompt again.
build_repair_prompt_Initial(previous_problem, val_error, task_text, rules_text, app_text, domain_text) ==
    build_pddl_prompt(task_text, rules_text, app_text, domain_text)

build_repair_prompt(previous_problem, val_error, task_text, rules_text, app_text, domain_text) ==
    [template |-> "build_repair_prompt", task_text |-> task_text, rules_text |-> rules_text,
     app_text |-> app_text, domain_text |-> domain_text,
     previous_problem |-> previous_problem, error |-> val_error]

build_planner_structural_repair_prompt(previous_problem, planner_log, domain_text) ==
    [template |-> "build_planner_structural_repair_prompt", task_text |-> None,
     rules_text |-> None, app_text |-> None, domain_text |-> domain_text,
     previous_problem |-> previous_problem, error |-> planner_log]

build_planner_repair_prompt(previous_problem, planner_log, domain_text) ==
    [template |-> "build_planner_repair_prompt", task_text |-> None,
     rules_text |-> None, app_text |-> None, domain_text |-> domain_text,
     previous_problem |-> previous_problem, error |-> planner_log]

\* Temperatures are counted in hundredths.
DEFAULT_TEMPERATURE == 30
COOLED_TEMPERATURE == 5
PLANNER_TEMPERATURE == 20

\* The temperature get_completion samples with:
\* "temperature if temperature > 0 else 0.3".
AppliedTemperature(temperature) ==
    IF temperature > 0 THEN temperature ELSE DEFAULT_TEMPERATURE

\* A loop that warms up instead: the larger of the two values after attempt 1.
AttemptTemperature_Warmed(temperature, n) ==
    IF n = 1 THEN temperature ELSE MaxOf({temperature, COOLED_TEMPERATURE})

\* "temp = args.temperature if attempt == 1 else min(args.temperature, 0.05)"
AttemptTemperature(temperature, n) ==
    IF n = 1 THEN temperature ELSE MinOf({temperature, COOLED_TEMPERATURE})

\* (mutant) The verifier output forwarded as it is, never with the hint.
val_error_for_prompt_NoHint(val_output, domain_types_hint) == val_output

\* "if "unknown type" in val_error_for_prompt.lower(): val_error_for_prompt +=
\* f"\nAvailable types: {domain_types_hint}""
val_error_for_prompt(val_output, domain_types_hint) ==
    IF Contains(<<"u","n","k","n","o","w","n"," ","t","y","p","e">>, ToLower(val_output))
    THEN val_output
             \o <<"\n","A","v","a","i","l","a","b","l","e"," ","t","y","p","e","s",":"," ">>
             \o domain_types_hint
    ELSE val_output

(* test_planner_repair.py *)

structural_keywords ==
    <<<<"d","u","p","l","i","c","a","t","e"," ","o","b","j","e","c","t">>,
      <<"t","r","a","n","s","l","a","t","o","r">>,
      <<"p","a","r","s","e">>,
      <<"u","n","k","n","o","w","n">>,
      <<"u","n","d","e","f","i","n","e","d">>,
      <<"c","o","n","s","t","a","n","t">>>>

\* classify_planner_error(log)
classify_planner_error(log) ==
    IF \E k \in 1..Len(structural_keywords) : Contains(structural_keywords[k], ToLower(log))
    THEN "structural" ELSE "semantic"

\* run_planner(domain, problem) on what the planner process returned.
run_planner(proc) == [ok |-> proc.returncode = 0, log |-> Strip(proc.stdout)]

\* extract_problem_pddl(text) of test_planner_repair.py
planner_extract_problem_pddl(t0) ==
    LET t1 == Strip(t0)
        t2 == IF StartsWith(t1, STR_fence) THEN Strip(StripChars(t1, {"U+0060"})) ELSE t1
        idx == Find(STR_define, ToLower(t2))
    IN  Strip(IF idx >= 1 THEN Suffix(t2, idx - 1) ELSE t2)

RStrip(s) ==
    LET keep == {i \in 1..Len(s) : s[i] \notin Whitespace}
    IN  IF keep = {} THEN <<>> ELSE SubSeq(s, 1, MaxOf(keep))

NonBlank(line) == Strip(line) # <<>>

\* (mutant) The keyword list without "duplicate".
summary_keywords_NoDuplicate ==
    <<<<"e","r","r","o","r">>,
      <<"f","a","t","a","l">>,
      <<"u","n","d","e","f","i","n","e","d">>,
      <<"u","n","k","n","o","w","n">>,
      <<"f","a","i","l","e","d">>>>

summary_keywords ==
    <<<<"e","r","r","o","r">>,
      <<"f","a","t","a","l">>,
      <<"d","u","p","l","i","c","a","t","e">>,
      <<"u","n","d","e","f","i","n","e","d">>,
      <<"u","n","k","n","o","w","n">>,
      <<"f","a","i","l","e","d">>>>

IsKeyLine(line) ==
    \E k \in 1..Len(summary_keywords) : Contains(summary_keywords[k], ToLower(line))

\* The lines picked around the key lines from index i on: one line before
\* and one after each key line.
RECURSIVE PickContext(_, _)
PickContext(lines, i) ==
    IF i > Len(lines) THEN <<>>
    ELSE (IF IsKeyLine(lines[i])
          THEN SubSeq(lines, MaxOf({1, i - 1}), MinOf({Len(lines), i + 1}))
          ELSE <<>>) \o PickContext(lines, i + 1)

\* Deduplication that keeps the first occurrence of a line.
RECURSIVE Dedupe(_, _, _)
Dedupe(picked, i, acc) ==
    IF i > Len(picked) THEN acc
    ELSE IF \E j \in 1..Len(acc) : acc[j] = picked[i]
         THEN Dedupe(picked, i + 1, acc)
         ELSE Dedupe(picked, i + 1, Append(acc, picked[i]))

SUMMARY_FALLBACK_LINES == 6

\* summarize_planner_error(output)
summarize_planner_error(output) ==
    LET kept == SelectSeq(SplitLines(output), NonBlank)
        lines == [i \in 1..Len(kept) |-> RStrip(kept[i])]
        around == PickContext(lines, 1)
        picked == IF around = <<>>
                  THEN SubSeq(lines, MaxOf({1, Len(lines) - SUMMARY_FALLBACK_LINES + 1}), Len(lines))
                  ELSE around
    IN  Join(Dedupe(picked, 1, <<>>), <<"\n">>)

-----------------------------------------------------------------------------
(* The repair loops: main() of generate_problem.py (template mode, llm      *)
(* mode) and main() of test_planner_repair.py                               *)

MAX_RETRIES_TEMPLATE == 2
MAX_RETRIES_LLM == 10
MAX_RETRIES_PLANNER == 5

\* What llm.get_completion returns to the llm-mode loop: the list of
\* responses, empty when every try of the generation adapter failed.
R_WellFormed ==
    <<"(","d","e","f","i","n","e"," ","(",":","d","o","m","a","i","n"," ","d",
      ")"," ","(",":","o","b","j","e","c","t","s",")"," ","(",":","i","n","i",
      "t",")"," ","(",":","g","o","a","l",")",")">>
R_Fenced ==
    <<"U+0060","U+0060","U+0060","p","d","d","l","\n","(","d","e","f","i","n",
      "e"," ","(",":","d","o","m","a","i","n"," ","d",")"," ","(",":","o","b",
      "j","e","c","t","s",")"," ","(",":","i","n","i","t",")"," ","(",":","g",
      "o","a","l",")",")","\n","U+0060","U+0060","U+0060">>
R_Unbalanced ==
    <<"(","d","e","f","i","n","e"," ","(",":","d","o","m","a","i","n"," ","d",
      ")"," ","(",":","o","b","j","e","c","t","s",")"," ","(",":","i","n","i",
      "t",")"," ","(",":","g","o","a","l",")">>
R_NoObjects ==
    <<"S","u","r","e",":"," ","(","d","e","f","i","n","e"," ","(",":","d","o",
      "m","a","i","n"," ","d",")"," ","(",":","i","n","i","t",")"," ","(",":",
      "g","o","a","l",")",")">>
LlmResponses == {<<>>, <<R_WellFormed>>, <<R_Fenced>>, <<R_Unbalanced>>, <<R_NoObjects>>}

\* What llm.get_completion returns to the template-mode loop.
J_Named ==
    <<"{","\"","p","r","o","b","l","e","m","_","n","a","m","e","\"",":"," ",
      "\"","O","p","e","n"," ","S","e","a","r","c","h","\"","}">>
J_Empty ==
    <<"{","}">>
J_Prose ==
    <<"n","a","m","e",":"," ","o","p","e","n","_","s","e","a","r","c","h">>
J_List ==
    <<"[","]">>
NameResponses == {<<>>, <<J_Named>>, <<J_Empty>>, <<J_Prose>>, <<J_List>>}

\* What the validate process returns on a problem file.
OUT_NoErrors ==
    <<"E","r","r","o","r","s",":"," ","0",","," ","w","a","r","n","i","n","g",
      "s",":"," ","0","\n">>
OUT_UnknownType ==
    <<"E","r","r","o","r",":"," ","u","n","k","n","o","w","n"," ","t","y","p",
      "e"," ","t","\n","E","r","r","o","r","s",":"," ","1",","," ","w","a",
      "r","n","i","n","g","s",":"," ","0","\n">>
OUT_ParserFailed ==
    <<"P","a","r","s","e","r"," ","f","a","i","l","e","d"," ","t","o"," ","r",
      "e","a","d"," ","f","i","l","e","\n">>
OUT_WarningsOnly ==
    <<"E","r","r","o","r","s",":"," ","0",","," ","w","a","r","n","i","n","g",
      "s",":"," ","1","\n">>
OUT_Unparseable ==
    <<"E","r","r","o","r","s",":"," ","n","o","n","e","\n">>
OUT_NoSummary ==
    <<"C","h","e","c","k","i","n","g"," ","p","\n">>
OUT_TwoSummaries ==
    <<"E","r","r","o","r","s",":"," ","1",","," ","w","a","r","n","i","n","g",
      "s",":"," ","0","\n"," ","e","r","r","o","r","s",":"," ","0","\n">>
OUT_LastUnparseable ==
    <<"E","r","r","o","r","s",":"," ","0","\n","E","r","r","o","r","s",":",
      "\n">>
OUT_ParserFailedNoErrors ==
    <<"p","a","r","s","e","r"," ","f","a","i","l","e","d"," ","t","o"," ","r",
      "e","a","d"," ","f","i","l","e","\n","E","r","r","o","r","s",":"," ",
      "0","\n">>
OUT_UnknownTypeUpper ==
    <<"U","N","K","N","O","W","N"," ","T","Y","P","E"," ","t","\n">>
ValResults ==
    {[returncode |-> 0, stdout |-> OUT_NoErrors],
     [returncode |-> 1, stdout |-> OUT_UnknownTypeUpper],
     [returncode |-> 1, stdout |-> OUT_UnknownType],
     [returncode |-> 0, stdout |-> OUT_UnknownType],
     [returncode |-> 1, stdout |-> OUT_ParserFailed],
     [returncode |-> 0, stdout |-> OUT_ParserFailedNoErrors],
     [returncode |-> 1, stdout |-> OUT_WarningsOnly],
     [returncode |-> 0, stdout |-> OUT_Unparseable],
     [returncode |-> 1, stdout |-> OUT_Unparseable],
     [returncode |-> 0, stdout |-> OUT_NoSummary],
     [returncode |-> 1, stdout |-> OUT_NoSummary],
     [returncode |-> 1, stdout |-> OUT_TwoSummaries],
     [returncode |-> 1, stdout |-> OUT_LastUnparseable]}

\* What the planner process returns, and what the generator answers to a
\* planner repair prompt.
LOG_Solved ==
    <<"S","o","l","u","t","i","o","n"," ","f","o","u","n","d",".","\n">>
LOG_Duplicate ==
    <<"P","a","r","s","i","n","g",".",".",".","\n","d","u","p","l","i","c",
      "a","t","e"," ","o","b","j","e","c","t"," ","n","a","m","e"," ","x","\n">>
LOG_NoSolution ==
    <<"S","e","a","r","c","h"," ","s","t","o","p","p","e","d"," ","w","i","t",
      "h","o","u","t"," ","f","i","n","d","i","n","g"," ","a"," ","s","o","l",
      "u","t","i","o","n",".","\n">>
LOG_TranslatorDropped ==
    <<"t","r","a","n","s","l","a","t","o","r","\n","s","t","e","p"," ","a",
      "\n","s","t","e","p"," ","b","\n","s","e","a","r","c","h"," ","f","a",
      "i","l","e","d","\n">>
LOG_DuplicateBuried ==
    <<"d","u","p","l","i","c","a","t","e"," ","o","b","j","e","c","t"," ","n",
      "a","m","e"," ","x","\n","a","\n","b","\n","c","\n","d","\n","e","\n",
      "f","\n","g","\n">>
LOG_DuplicateInLine ==
    <<"e","x","i","t"," ","3","0","\n","a","t",":"," ","d","u","p","l","i",
      "c","a","t","e"," ","o","b","j","e","c","t"," ","n","a","m","e"," ","b",
      "1"," ","h","e","r","e","\n","D","o","n","e","\n">>
PlannerResults ==
    {[returncode |-> 0, stdout |-> LOG_Solved],
     [returncode |-> 1, stdout |-> LOG_Duplicate],
     [returncode |-> 12, stdout |-> LOG_NoSolution],
     [returncode |-> 1, stdout |-> LOG_TranslatorDropped],
     [returncode |-> 1, stdout |-> LOG_DuplicateBuried],
     [returncode |-> 30, stdout |-> LOG_DuplicateInLine]}
PlannerResponses == {<<>>, <<R_WellFormed>>, <<R_Fenced>>}

\* The problem file test_planner_repair.py starts from.
EXISTING_PROBLEM ==
    <<"(","d","e","f","i","n","e"," ","(","p","r","o","b","l","e","m"," ","p",
      ")"," ","(",":","o","b","j","e","c","t","s"," ","x"," ","x",")",")">>

\* The configured --temperature values, in hundredths.
BaseTemps == {0, 2, 20}

\* The parsers and adapters on the inputs of the model, computed once per
\* input.
run_val_of == [proc \in ValResults |-> run_val(proc)]

\* "domain_types_hint = extract_domain_types(domain_text)"
domain_types_hint == extract_domain_types(DOMAIN_TEXT)

val_error_for_prompt_of ==
    [proc \in ValResults |-> val_error_for_prompt(run_val(proc).output, domain_types_hint)]

\* "raw_text = responses[0].strip()" and "extract_problem_pddl(raw_text)"
problem_pddl_of ==
    [responses \in LlmResponses \ {<<>>} |-> extract_problem_pddl(Strip(responses[1]))]

quick_pddl_checks_of ==
    [responses \in LlmResponses \ {<<>>} |-> quick_pddl_checks(problem_pddl_of[responses])]

\* "raw_text = responses[0].strip()", "parsed = json.loads(raw_text)" and
\* "problem_name_raw = parsed.get("problem_name", "")"
parsed_name_of ==
    [responses \in NameResponses \ {<<>>} |-> json_problem_name(Strip(responses[1]))]

\* "problem_name = sanitize_problem_name(problem_name_raw)" and
\* "problem_pddl = PROBLEM_TEMPLATE.format(problem_name=problem_name)"
template_problem_of ==
    [responses \in NameResponses \ {<<>>} |->
        FormatProblemTemplate(sanitize_problem_name(parsed_name_of[responses].problem_name))]

run_planner_of == [proc \in PlannerResults |-> run_planner(proc)]

PlannerLogs == {run_planner(proc).log : proc \in PlannerResults}

planner_summary_of == [log \in PlannerLogs |-> summarize_planner_error(log)]

\* "error_type = classify_planner_error(planner_summary)"
error_type_of == [log \in PlannerLogs |-> classify_planner_error(planner_summary_of[log])]

new_problem_of ==
    [responses \in PlannerResponses \ {<<>>} |-> planner_extract_problem_pddl(responses[1])]

\* (mutant) A loop that runs one attempt more than its range allows.
HasNextAttempt_OffByOne(n, max) == n <= max

\* "for attempt in range(1, MAX_RETRIES + 1)": attempt n is followed by
\* another one.
HasNextAttempt(n, max) == n < max

\* (mutant) A normal end that is reported as an error.
Returned_AsError(msg) == [how |-> "raise", msg |-> msg]

\* "return" of main(), after the print of msg.
Returned(msg) == [how |-> "return", msg |-> msg]

\* (mutant) An error that is reported as a normal end.
Raised_AsReturn(msg) == [how |-> "return", msg |-> msg]

\* "raise RuntimeError(msg)" that ends main().
Raised(msg) == [how |-> "raise", msg |-> msg]

\* "fallback_name = sanitize_problem_name("fallback_demo")"
fallback_name == sanitize_problem_name(<<"f","a","l","l","b","a","c","k","_","d","e","m","o">>)

\* (mutant) A fallback that re-submits the last candidate of the generator.
fallback_problem_LastCandidate == last_problem_text

\* "problem_pddl = PROBLEM_TEMPLATE.format(problem_name=fallback_name)"
fallback_problem == FormatProblemTemplate(fallback_name)

\* (mutant) A fallback whose failure is swallowed.
FallbackOutcome_Swallowed(is_valid) == Returned("Template fallback VAL validation PASSED.")

\* The end of the fallback: return if the template verified, else raise.
FallbackOutcome(is_valid) ==
    IF is_valid
    THEN Returned("Template fallback VAL validation PASSED.")
    ELSE Raised("RuntimeError: Fallback template generation also failed VAL")

LoopInit ==
    /\ ClassifierIdle
    /\ LedgerIdle
    /\ CallerIdle
    /\ DriverIdle
    /\ mode \in {"template", "llm", "planner"}
    /\ baseTemp \in (IF mode = "planner" THEN {PLANNER_TEMPERATURE} ELSE BaseTemps)
    /\ pc = "start"
    /\ attempt = 1
    /\ temps = <<>>
    /\ prompt = NoPrompt
    /\ last_problem_text = None
    /\ outputFile \in (IF mode = "planner" THEN {EXISTING_PROBLEM, None} ELSE {None})
    /\ lastVal = NoVal
    /\ genCalls = 0
    /\ verifyCalls = 0
    /\ precheckFails = 0
    /\ rejections = 0
    /\ outcome = Running

\* The input files main() of generate_problem.py reads, in the order it
\* reads them: the rules and the app description only in llm mode.
InputOrder(m) ==
    IF m = "llm" THEN <<"task", "domain", "rules", "app">> ELSE <<"task", "domain">>

InputFiles == {"task", "domain", "rules", "app"}

\* What read_file can find at a path: a file with text, no file, or a file
\* that is empty once stripped.
InputStates == {"ok", "missing", "empty"}

\* The default path of each input file, below the project root.
InputPath(file) ==
    CASE file = "task" -> "problem_validation/data/inputs/prompt.txt"
      [] file = "domain" -> "problem_validation/data/inputs/domain.pddl"
      [] file = "rules" -> "problem_validation/data/inputs/rules.txt"
      [] OTHER -> "problem_validation/data/inputs/app.txt"

\* read_file(path) when it does not return the text: the fault it raises.
read_file_fault(file, state) ==
    IF state = "missing"
    THEN "FileNotFoundError: File not found: " \o InputPath(file)
    ELSE "ValueError: File is empty: " \o InputPath(file)

\* The first file, in reading order, that read_file does not return; 0 when
\* every file is read.
FirstUnreadable(order, files) ==
    IF \E i \in 1..Len(order) : files[order[i]] # "ok"
    THEN MinOf({i \in 1..Len(order) : files[order[i]] # "ok"})
    ELSE 0

\* The fault of ensure_validate_exists(). The message puts back quotes around
\* the word validate; a string of this module cannot hold one, so they are
\* written as apostrophes.
VALIDATE_MISSING ==
    "FileNotFoundError: 'validate' binary not found in PATH. Please install VAL before running."

\* main() of generate_problem.py, from its first line to the top of the
\* loop: the inputs are read, the validate program is looked up on the PATH,
\* the first prompt is built. A file that cannot be read or a missing
\* validate program ends main() with the fault, before any generation call.
GeneratorStart(files, validate_found) ==
    /\ mode \in {"template", "llm"}
    /\ pc = "start"
    /\ LET order == InputOrder(mode)
           unreadable == FirstUnreadable(order, files)
       IN  IF unreadable # 0
           THEN /\ pc' = "done"
                /\ outcome' = Raised(read_file_fault(order[unreadable],
                                                      files[order[unreadable]]))
                /\ UNCHANGED prompt
           ELSE IF ~validate_found
                THEN /\ pc' = "done"
                     /\ outcome' = Raised(VALIDATE_MISSING)
                     /\ UNCHANGED prompt
                ELSE /\ pc' = "generate"
                     /\ prompt' = (IF mode = "template"
                                   THEN build_name_prompt(TASK_TEXT)
                                   ELSE build_pddl_prompt(TASK_TEXT, RULES_TEXT, APP_TEXT,
                                                          DOMAIN_TEXT))
                     /\ UNCHANGED outcome
    /\ UNCHANGED <<mode, attempt, baseTemp, temps, last_problem_text, outputFile, lastVal,
                   genCalls, verifyCalls, precheckFails, rejections>>
    /\ UNCHANGED <<classifierVars, ledgerVars, callerVars, driverVars>>

\* The fault of read_text(DOMAIN) when the domain file does not exist.
DOMAIN_MISSING ==
    "FileNotFoundError: [Errno 2] No such file or directory: 'problem_validation/data/inputs/domain.pddl'"

\* The fault of read_text(PROBLEM) when the problem file does not exist.
PROBLEM_MISSING ==
    "FileNotFoundError: [Errno 2] No such file or directory: 'problem_validation/data/outputs/generated_problems/problem.pddl'"

\* main() of test_planner_repair.py, from its first line to the top of the
\* loop: the domain file is read.
PlannerStart(domain_found) ==
    /\ mode = "planner"
    /\ pc = "start"
    /\ IF domain_found
       THEN pc' = "planner" /\ UNCHANGED outcome
       ELSE pc' = "done" /\ outcome' = Raised(DOMAIN_MISSING)
    /\ UNCHANGED <<mode, attempt, baseTemp, temps, prompt, last_problem_text, outputFile,
                   lastVal, genCalls, verifyCalls, precheckFails, rejections>>
    /\ UNCHANGED <<classifierVars, ledgerVars, callerVars, driverVars>>

\* The end of a rejected attempt of the template loop: "continue" or the
\* fall through to the next iteration; after the last one the RuntimeError
\* behind the loop.
TemplateContinue ==
    IF HasNextAttempt(attempt, MAX_RETRIES_TEMPLATE)
    THEN /\ attempt' = attempt + 1
         /\ pc' = "generate"
         /\ outcome' = outcome
    ELSE /\ attempt' = attempt
         /\ pc' = "done"
         /\ outcome' = Raised("RuntimeError: VAL failed after deterministic template generation")

\* Template mode, from the top of the loop body to the write of the file.
TemplateGenerate(responses) ==
    /\ mode = "template"
    /\ pc = "generate"
    /\ genCalls' = genCalls + 1
    /\ temps' = Append(temps, AppliedTemperature(baseTemp))
    /\ IF responses = <<>>
       THEN /\ pc' = "done"
            /\ outcome' = Raised("RuntimeError: LLM did not return any response.")
            /\ UNCHANGED <<attempt, last_problem_text, outputFile, rejections>>
       ELSE LET parsed_name == parsed_name_of[responses]
                problem_pddl == template_problem_of[responses]
            IN  CASE parsed_name.kind = "JSONDecodeError" ->
                       /\ rejections' = rejections + 1
                       /\ TemplateContinue
                       /\ UNCHANGED <<last_problem_text, outputFile>>
                  [] parsed_name.kind = "other" ->
                       /\ pc' = "done"
                       /\ outcome' = Raised("AttributeError")
                       /\ UNCHANGED <<attempt, last_problem_text, outputFile, rejections>>
                  [] OTHER ->
                       /\ last_problem_text' = problem_pddl
                       /\ outputFile' = problem_pddl
                       /\ pc' = "verify"
                       /\ UNCHANGED <<attempt, rejections, outcome>>
    /\ UNCHANGED <<mode, baseTemp, prompt, lastVal, verifyCalls, precheckFails>>
    /\ UNCHANGED <<classifierVars, ledgerVars, callerVars, driverVars>>

\* Template mode, from run_val to the end of the loop body.
TemplateVerify(proc) ==
    /\ mode = "template"
    /\ pc = "verify"
    /\ verifyCalls' = verifyCalls + 1
    /\ lastVal' = run_val_of[proc]
    /\ IF lastVal'.is_valid
       THEN /\ pc' = "done"
            /\ outcome' = Returned("VAL validation PASSED.")
            /\ UNCHANGED <<attempt, rejections>>
       ELSE /\ rejections' = rejections + 1
            /\ TemplateContinue
    /\ UNCHANGED <<mode, baseTemp, temps, prompt, last_problem_text, outputFile,
                   genCalls, precheckFails>>
    /\ UNCHANGED <<classifierVars, ledgerVars, callerVars, driverVars>>

\* The end of a rejected attempt of the llm loop: the next iteration, or
\* the fallback behind the loop.
LlmContinue ==
    /\ outcome' = outcome
    /\ IF HasNextAttempt(attempt, MAX_RETRIES_LLM)
       THEN attempt' = attempt + 1 /\ pc' = "generate"
       ELSE attempt' = attempt /\ pc' = "fallback"

\* Llm mode, from the top of the loop body to the write of the file.
LlmGenerate(responses) ==
    /\ mode = "llm"
    /\ pc = "generate"
    /\ genCalls' = genCalls + 1
    /\ temps' = Append(temps, AppliedTemperature(AttemptTemperature(baseTemp, attempt)))
    /\ IF responses = <<>>
       THEN /\ pc' = "done"
            /\ outcome' = Raised("RuntimeError: LLM did not return any response.")
            /\ UNCHANGED <<attempt, prompt, last_problem_text, outputFile,
                           precheckFails, rejections>>
       ELSE LET problem_pddl == problem_pddl_of[responses]
                quick == quick_pddl_checks_of[responses]
            IN  /\ last_problem_text' = problem_pddl
                /\ IF ~quick.ok
                   THEN /\ prompt' = build_repair_prompt(problem_pddl, quick.err, TASK_TEXT,
                                                         RULES_TEXT, APP_TEXT, DOMAIN_TEXT)
                        /\ precheckFails' = precheckFails + 1
                        /\ rejections' = rejections + 1
                        /\ LlmContinue
                        /\ UNCHANGED outputFile
                   ELSE /\ outputFile' = problem_pddl
                        /\ pc' = "verify"
                        /\ UNCHANGED <<attempt, prompt, precheckFails, rejections, outcome>>
    /\ UNCHANGED <<mode, baseTemp, lastVal, verifyCalls>>
    /\ UNCHANGED <<classifierVars, ledgerVars, callerVars, driverVars>>

\* Llm mode, from run_val to the end of the loop body.
LlmVerify(proc) ==
    /\ mode = "llm"
    /\ pc = "verify"
    /\ verifyCalls' = verifyCalls + 1
    /\ lastVal' = run_val_of[proc]
    /\ IF lastVal'.is_valid
       THEN /\ pc' = "done"
            /\ outcome' = Returned("VAL validation PASSED.")
            /\ UNCHANGED <<attempt, prompt, rejections>>
       ELSE /\ prompt' = build_repair_prompt(last_problem_text, val_error_for_prompt_of[proc],
                                              TASK_TEXT, RULES_TEXT, APP_TEXT, DOMAIN_TEXT)
            /\ rejections' = rejections + 1
            /\ LlmContinue
    /\ UNCHANGED <<mode, baseTemp, temps, last_problem_text, outputFile, genCalls,
                   precheckFails>>
    /\ UNCHANGED <<classifierVars, ledgerVars, callerVars, driverVars>>

\* Llm mode, the code behind the loop up to the call of run_val: the
\* template fallback is written to the output file.
LlmFallbackWrite ==
    /\ mode = "llm"
    /\ pc = "fallback"
    /\ outputFile' = fallback_problem
    /\ pc' = "fallback_verify"
    /\ UNCHANGED <<mode, attempt, baseTemp, temps, prompt, last_problem_text, lastVal,
                   genCalls, verifyCalls, precheckFails, rejections, outcome>>
    /\ UNCHANGED <<classifierVars, ledgerVars, callerVars, driverVars>>

\* Llm mode, the code behind the loop from run_val on: the verdict on the
\* template fallback ends main().
LlmFallback(proc) ==
    /\ mode = "llm"
    /\ pc = "fallback_verify"
    /\ verifyCalls' = verifyCalls + 1
    /\ lastVal' = run_val_of[proc]
    /\ pc' = "done"
    /\ outcome' = FallbackOutcome(lastVal'.is_valid)
    /\ UNCHANGED <<mode, attempt, baseTemp, temps, prompt, last_problem_text, outputFile,
                   genCalls, precheckFails, rejections>>
    /\ UNCHANGED <<classifierVars, ledgerVars, callerVars, driverVars>>

\* The fault subprocess.run raises when the validate program cannot be started.
LAUNCH_FAULT == "FileNotFoundError: [Errno 2] No such file or directory: 'validate'"

\* run_val, in the loop body or in the fallback, when the validate program
\* cannot be started: subprocess.run raises, run_val has no handler and main()
\* has none either, so the fault ends main().
VerifyLaunchFault ==
    /\ mode \in {"template", "llm"}
    /\ pc \in {"verify", "fallback_verify"}
    /\ verifyCalls' = verifyCalls + 1
    /\ pc' = "done"
    /\ outcome' = Raised(LAUNCH_FAULT)
    /\ UNCHANGED <<mode, attempt, baseTemp, temps, prompt, last_problem_text, outputFile,
                   lastVal, genCalls, precheckFails, rejections>>
    /\ UNCHANGED <<classifierVars, ledgerVars, callerVars, driverVars>>

\* Planner loop, from the top of the loop body to "if ok: return".
PlannerRun(proc) ==
    /\ mode = "planner"
    /\ pc = "planner"
    /\ verifyCalls' = verifyCalls + 1
    /\ LET ran == run_planner_of[proc]
       IN  /\ lastVal' = [is_valid |-> ran.ok, output |-> ran.log]
           /\ IF ran.ok
              THEN /\ pc' = "done"
                   /\ outcome' = Returned("Planner solved the problem.")
                   /\ UNCHANGED rejections
              ELSE /\ pc' = "repair"
                   /\ rejections' = rejections + 1
                   /\ UNCHANGED outcome
    /\ UNCHANGED <<mode, attempt, baseTemp, temps, prompt, last_problem_text, outputFile,
                   genCalls, precheckFails>>
    /\ UNCHANGED <<classifierVars, ledgerVars, callerVars, driverVars>>

\* The fault subprocess.run raises when the planner cannot be started.
PLANNER_LAUNCH_FAULT ==
    "FileNotFoundError: [Errno 2] No such file or directory: 'fast-downward.py'"

\* run_planner when the planner program cannot be started: subprocess.run
\* raises, run_planner has no handler and main() has none either, so the
\* fault ends main().
PlannerLaunchFault ==
    /\ mode = "planner"
    /\ pc = "planner"
    /\ verifyCalls' = verifyCalls + 1
    /\ pc' = "done"
    /\ outcome' = Raised(PLANNER_LAUNCH_FAULT)
    /\ UNCHANGED <<mode, attempt, baseTemp, temps, prompt, last_problem_text, outputFile,
                   lastVal, genCalls, precheckFails, rejections>>
    /\ UNCHANGED <<classifierVars, ledgerVars, callerVars, driverVars>>

\* Planner loop, from the read of the problem file to the call of
\* get_completion: the log is summarised and classified and the repair
\* prompt is built. A problem file that does not exist ends main() with the
\* fault of read_text.
PlannerBuildPrompt ==
    /\ mode = "planner"
    /\ pc = "repair"
    /\ IF outputFile = None
       THEN /\ pc' = "done"
            /\ outcome' = Raised(PROBLEM_MISSING)
            /\ UNCHANGED prompt
       ELSE /\ LET previous_problem == outputFile
                   planner_summary == planner_summary_of[lastVal.output]
                   error_type == error_type_of[lastVal.output]
               IN  prompt' = IF error_type = "structural"
                             THEN build_planner_structural_repair_prompt(
                                      previous_problem, planner_summary, DOMAIN_TEXT)
                             ELSE build_planner_repair_prompt(previous_problem,
                                                              planner_summary, DOMAIN_TEXT)
            /\ pc' = "repair_call"
            /\ UNCHANGED outcome
    /\ UNCHANGED <<mode, attempt, baseTemp, temps, last_problem_text, outputFile, lastVal,
                   genCalls, verifyCalls, precheckFails, rejections>>
    /\ UNCHANGED <<classifierVars, ledgerVars, callerVars, driverVars>>

\* Planner loop, from the return of get_completion to the end of the loop
\* body; behind the loop main() prints that the retries are exhausted and
\* returns.
PlannerRepair(responses) ==
    /\ mode = "planner"
    /\ pc = "repair_call"
    /\ genCalls' = genCalls + 1
    /\ temps' = Append(temps, AppliedTemperature(PLANNER_TEMPERATURE))
    /\ IF responses = <<>>
       THEN /\ pc' = "done"
            /\ outcome' = Raised("RuntimeError: LLM returned no output.")
            /\ UNCHANGED <<attempt, last_problem_text, outputFile>>
       ELSE LET new_problem == new_problem_of[responses]
            IN  /\ last_problem_text' = new_problem
                /\ outputFile' = new_problem
                /\ IF HasNextAttempt(attempt, MAX_RETRIES_PLANNER)
                   THEN /\ attempt' = attempt + 1
                        /\ pc' = "planner"
                        /\ UNCHANGED outcome
                   ELSE /\ attempt' = attempt
                        /\ pc' = "done"
                        /\ outcome' = Returned("All retries exhausted. Planner still failing.")
    /\ UNCHANGED <<mode, baseTemp, prompt, lastVal, verifyCalls, precheckFails, rejections>>
    /\ UNCHANGED <<classifierVars, ledgerVars, callerVars, driverVars>>

LoopNext ==
    \/ \E files \in [InputFiles -> InputStates], validate_found \in BOOLEAN :
           GeneratorStart(files, validate_found)
    \/ \E domain_found \in BOOLEAN : PlannerStart(domain_found)
    \/ \E responses \in NameResponses : TemplateGenerate(responses)
    \/ \E proc \in ValResults : TemplateVerify(proc)
    \/ \E responses \in LlmResponses : LlmGenerate(responses)
    \/ \E proc \in ValResults : LlmVerify(proc)
    \/ LlmFallbackWrite
    \/ \E proc \in ValResults : LlmFallback(proc)
    \/ VerifyLaunchFault
    \/ \E proc \in PlannerResults : PlannerRun(proc)
    \/ PlannerLaunchFault
    \/ PlannerBuildPrompt
    \/ \E responses \in PlannerResponses : PlannerRepair(responses)

\* One run of one of the three main() functions, for every behaviour of the
\* generator, the verifier and the planner.
SpecLoops == LoopInit /\ [][LoopNext]_vars

\* The same runs, with every call returning: a main() that can take a step
\* takes it.
SpecLoopsFair == LoopInit /\ [][LoopNext]_vars /\ WF_vars(LoopNext)

-----------------------------------------------------------------------------
(* Claims about the repair loops *)

\* C8: every repair loop ends, and when it has ended it has made at most M+1
\* generation calls and at most M+1 verifier (planner) calls, whatever the
\* generator, the verifier and the planner return: M = 2 for the
\* template-name loop, M = 10 for the direct-PDDL loop, M = 5 for the
\* planner-repair loop.  (The call counters never decrease, so the bound at
\* the end is the bound of the whole run.)
C8_LoopsTerminateWithinBudget ==
    <>(/\ pc = "done"
       /\ mode = "template" => (genCalls <= 2 + 1 /\ verifyCalls <= 2 + 1)
       /\ mode = "llm" => (genCalls <= 10 + 1 /\ verifyCalls <= 10 + 1)
       /\ mode = "planner" => (genCalls <= 5 + 1 /\ verifyCalls <= 5 + 1))

\* The direct-PDDL loop has ended after 10 generation calls, 10 verifier
\* calls in the loop and the one of the fallback.
C8_Witness ==
    /\ mode = "llm"
    /\ pc = "done"
    /\ genCalls = 10
    /\ verifyCalls = 10 + 1

\* C9: in direct-PDDL mode, once all 10 attempts are rejected (by the
\* pre-check or by the verifier) the controller is at the fallback: it makes
\* no further generation call, it writes the fixed template artifact
\* (problem name fallback_demo) to the output file, and it ends with that
\* artifact in the file after exactly one verifier call more than the
\* attempts made.
C9_ExhaustedBudgetFallsBack ==
    (mode = "llm" /\ rejections = 10) =>
        /\ pc \in {"fallback", "fallback_verify", "done"}
        /\ genCalls = 10
        /\ verifyCalls = (10 - precheckFails) + (IF pc = "done" THEN 1 ELSE 0)
        /\ pc \in {"fallback_verify", "done"} =>
               outputFile = FormatProblemTemplate(
                                <<"f","a","l","l","b","a","c","k","_","d","e","m","o">>)

\* The fallback has run after attempts rejected by the pre-check and
\* attempts rejected by the verifier.
C9_Witness ==
    /\ mode = "llm"
    /\ pc = "done"
    /\ rejections = 10
    /\ precheckFails \in 1..9
    /\ verifyCalls = (10 - precheckFails) + 1
    /\ last_problem_text # outputFile

\* C10: when the fallback has run, main() ends with a raised error if the
\* fallback artifact did not verify, and returns normally if it did.
C10_FallbackFailureIsFatal ==
    (mode = "llm" /\ pc = "done" /\ rejections = 10) =>
        /\ ~lastVal.is_valid => outcome.how = "raise"
        /\ lastVal.is_valid => outcome.how = "return"

\* The fallback artifact was rejected and main() raised.
C10_Witness ==
    /\ mode = "llm"
    /\ pc = "done"
    /\ rejections = 10
    /\ ~lastVal.is_valid
    /\ outcome.how = "raise"

\* C11: in template mode and in llm mode, when the verifier accepts the
\* candidate of attempt 1 (which passed the JSON parse or the pre-check),
\* main() ends there with a normal return after exactly 1 generation call and
\* exactly 1 verifier call.
C11_FirstAttemptSuccess ==
    [][(/\ mode \in {"template", "llm"}
        /\ pc = "verify"
        /\ attempt = 1
        /\ lastVal'.is_valid)
       => (/\ pc' = "done"
           /\ outcome'.how = "return"
           /\ genCalls' = 1
           /\ verifyCalls' = 1)]_vars

\* The llm loop has ended with success on its first attempt.
C11_Witness ==
    /\ mode = "llm"
    /\ pc = "done"
    /\ attempt = 1
    /\ lastVal.is_valid
    /\ outcome.how = "return"
    /\ genCalls = 1
    /\ verifyCalls = 1

\* C12: a task that succeeds on attempt 1 makes the ledger gain exactly one
\* entry, with success = true.
C12_SuccessReachesLedger ==
    (/\ mode \in {"template", "llm"}
     /\ pc = "done"
     /\ attempt = 1
     /\ lastVal.is_valid
     /\ outcome.how = "return")
    => (Len(ledger) = 1 /\ ledger[1].success)

\* The candidate t has unbalanced parentheses or lacks a required section.
FailsPreCheck(t) ==
    \/ BalanceScan(t, 1, 0) # "ok"
    \/ \E k \in 1..Len(REQUIRED_SECTIONS) : ~Contains(REQUIRED_SECTIONS[k], ToLower(t))

\* C13: in the llm loop, an attempt whose candidate fails the pre-check makes
\* no verifier call and leaves the output file as it was, and it is counted:
\* the loop goes on with the next attempt number, or to the fallback when it
\* was the last attempt.
C13_PreCheckFailureSkipsVerifier ==
    [][(/\ mode = "llm"
        /\ pc = "generate"
        /\ outcome'.how # "raise"
        /\ FailsPreCheck(last_problem_text'))
       => (/\ verifyCalls' = verifyCalls
           /\ outputFile' = outputFile
           /\ rejections' = rejections + 1
           /\ \/ pc' = "generate" /\ attempt' = attempt + 1
              \/ pc' = "fallback" /\ attempt = 10)]_vars

\* The first candidate failed the pre-check: attempt 2 is next, no verifier
\* call was made and no file was written.
C13_Witness ==
    /\ mode = "llm"
    /\ pc = "generate"
    /\ attempt = 2
    /\ FailsPreCheck(last_problem_text)
    /\ verifyCalls = 0
    /\ outputFile = None

\* C14: across the attempts of one task the temperatures the generation calls
\* sample with never increase, whatever the configured base temperature
\* (0 and values below the cooled value included).
C14_TemperatureNonIncreasing ==
    \A i \in 1..Len(temps) : \A j \in i..Len(temps) : temps[j] <= temps[i]

\* Three attempts of the llm loop: one that cooled down from the base value,
\* one that had a base below the cooled value, or one with base 0.
C14_Witness ==
    /\ mode = "llm"
    /\ Len(temps) >= 3
    /\ \/ baseTemp = 20 /\ temps[1] = 20 /\ temps[2] = COOLED_TEMPERATURE
       \/ baseTemp = 2 /\ temps[2] = 2
       \/ baseTemp = 0 /\ temps[2] = DEFAULT_TEMPERATURE

\* The attempt budget of the running loop.
AttemptBudget ==
    CASE mode = "template" -> MAX_RETRIES_TEMPLATE
      [] mode = "llm" -> MAX_RETRIES_LLM
      [] OTHER -> MAX_RETRIES_PLANNER

\* C15: a run that has used up its attempt budget without a success (every
\* attempt rejected, and the last verifier or planner run failed) does not end
\* with the normal return of a successful run; the planner-repair loop after
\* its 5 attempts included.
C15_ExhaustionIsSurfaced ==
    (/\ pc = "done"
     /\ rejections = AttemptBudget
     /\ ~lastVal.is_valid)
    => outcome.how # "return"

\* C16: the verifier adapter always returns a run record: when the verifier
\* process cannot be launched, the call still returns (a record with a
\* non-zero exit code and the failure message as output, so a rejection), and
\* the launch failure never reaches the caller as a raised fault.
C16_LaunchFailureIsARecord ==
    [][(mode \in {"template", "llm"} /\ verifyCalls' = verifyCalls + 1)
       => (/\ outcome' # Raised(LAUNCH_FAULT)
           /\ lastVal' # NoVal)]_vars

STR_duplicate_object_name ==
    <<"d","u","p","l","i","c","a","t","e"," ","o","b","j","e","c","t"," ","n",
      "a","m","e"," ">>

\* C17: when the planner has failed with a log that contains "duplicate
\* object name X", the planner-repair loop, reading the problem file it is to
\* repair, builds the structural (naming-fix) repair prompt, with the summary
\* of that log, and not the causal-chain prompt; that prompt is the one the
\* generation call is made with.
C17_DuplicateObjectIsStructural ==
    [][/\ (/\ mode = "planner"
           /\ pc = "repair"
           /\ outputFile # None
           /\ Contains(STR_duplicate_object_name, lastVal.output))
          => (/\ pc' = "repair_call"
              /\ prompt'.template = "build_planner_structural_repair_prompt"
              /\ Contains(STR_duplicate_object_name, prompt'.error))
       /\ (mode = "planner" /\ pc = "repair_call") => prompt' = prompt]_vars

\* The structural prompt was built for a log whose duplicate-object line is
\* followed by seven other lines.
C17_Witness ==
    /\ mode = "planner"
    /\ pc \in {"planner", "done"}
    /\ genCalls >= 1
    /\ lastVal.output = Strip(LOG_DuplicateBuried)
    /\ prompt.template = "build_planner_structural_repair_prompt"

\* Sum of the counts of a histogram.
RECURSIVE HistogramTotal(_)
HistogramTotal(h) ==
    IF DOMAIN h = {} THEN 0
    ELSE LET k == CHOOSE x \in DOMAIN h : TRUE
         IN  h[k] + HistogramTotal([x \in DOMAIN h \ {k} |-> h[x]])

\* The count of a kind in a histogram; a kind without a key has count 0.
HistogramCount(h, k) == IF k \in DOMAIN h THEN h[k] ELSE 0

\* C18: the summary generate_summary writes is recomputed from the ledger it
\* reads: total is the number of ledger entries, valid + invalid = total, the
\* counts of the per-kind histogram sum to total, the histogram's count for
\* "valid" is the number of valid plans, and for an empty ledger the valid
\* rate is 0.
C18_SummaryRecomputedFromLedger ==
    [][(lastOp' = "summary" /\ datasetExists)
       => (/\ summary'.written
           /\ summary'.total_records = Len(ledger)
           /\ summary'.valid_plans + summary'.invalid_plans = summary'.total_records
           /\ summary'.invalid_plans >= 0
           /\ HistogramTotal(summary'.classification) = summary'.total_records
           /\ HistogramCount(summary'.classification, "valid") = summary'.valid_plans
           /\ Len(ledger) = 0 => summary'.valid_rate = 0
           /\ Len(ledger) > 0 =>
                  /\ 1000 * summary'.valid_plans - Len(ledger) \div 2
                         <= summary'.valid_rate * Len(ledger)
                  /\ summary'.valid_rate * Len(ledger)
                         <= 1000 * summary'.valid_plans + Len(ledger) \div 2)]_vars

\* A summary of a ledger with a valid entry and entries of other kinds.
C18_Witness ==
    /\ lastOp = "summary"
    /\ summary.written
    /\ summary.total_records = Len(ledger)
    /\ summary.total_records >= 2
    /\ summary.valid_plans = 1
    /\ Cardinality(DOMAIN summary.classification) >= 2

\* C19: in the planner-repair loop every candidate written to the problem
\* file is checked by a planner run before main() ends: when main() has
\* returned, the planner has run once on the problem file it started from and
\* once after each of the candidates the generation calls produced, so the
\* last thing done to the file in the output was a planner run, not a write.
C19_WrittenCandidateIsChecked ==
    (mode = "planner" /\ pc = "done" /\ outcome.how = "return")
    => verifyCalls = genCalls + 1

\* C20: on every attempt N >= 2 of the direct-PDDL loop the temperature the
\* generation call samples with is at most 0.05 (5 hundredths), whatever the
\* configured base temperature, 0 included.
C20_CooledAfterFirstFailure ==
    mode = "llm" => \A n \in 2..Len(temps) : temps[n] <= 5

\* C21: in the direct-PDDL loop the prompt of every attempt N >= 2 is the
\* repair prompt built from the candidate of attempt N-1 and from the error of
\* attempt N-1 itself: the pre-check message when the pre-check rejected the
\* candidate, else the verifier output of that attempt (which the controller
\* may extend with the available types).  An attempt N >= 2 never starts with
\* the initial prompt.
C21_PromptFromPreviousAttempt ==
    [][/\ (mode = "llm" /\ attempt' = attempt + 1)
          => (/\ pc' = "generate"
              /\ prompt'.template = "build_repair_prompt"
              /\ prompt'.previous_problem = last_problem_text'
              /\ IF pc = "generate"
                 THEN /\ genCalls' = genCalls + 1
                      /\ prompt'.error = quick_pddl_checks(last_problem_text').err
                 ELSE /\ verifyCalls' = verifyCalls + 1
                      /\ StartsWith(prompt'.error, lastVal'.output))
       /\ (mode = "llm" /\ pc = "generate" /\ attempt >= 2)
          => (/\ prompt.template = "build_repair_prompt"
              /\ prompt.previous_problem = last_problem_text)]_vars

\* Attempt 3 is about to start: the pre-check rejected one of the two earlier
\* candidates, the verifier the other, and the prompt carries the verifier
\* output of attempt 2.
C21_Witness ==
    /\ mode = "llm"
    /\ pc = "generate"
    /\ attempt = 3
    /\ precheckFails = 1
    /\ verifyCalls = 1
    /\ prompt.template = "build_repair_prompt"
    /\ prompt.previous_problem = last_problem_text
    /\ StartsWith(prompt.error, lastVal.output)

\* C22: a verification run with a plan is reported successful only if the
\* verifier's exit code is 0 and its output has a "plan valid" line; a run
\* with exit code 0 and no such line is not reported as a success.
C22_SuccessNeedsPlanValidLine ==
    (lastRecord # NoRecord /\ lastRecord.success)
    => (/\ lastRecord.exit_code = 0
        /\ HasPlanValidLine(lastRecord.stdout \o <<"\n">> \o lastRecord.stderr))

\* C26 as stated: a classified text without a "plan valid" line that no row
\* of the registry matches has kind "unknown" and a null signature.
C26_UnknownHasNullSignature ==
    (cpc = "parsed" /\ ~HasPlanValidLine(text) /\ ~SomeRowMatches(text))
        => (parsed.error_type = "unknown" /\ parsed.error_signature = None)

\* C26 amended: a classified text without a "plan valid" line that no row of
\* the registry matches has kind "unknown", is not a success, and carries the
\* fixed signature "Unrecognized error pattern".
C26_UnknownHasPlaceholderSignature ==
    (cpc = "parsed" /\ ~HasPlanValidLine(text) /\ ~SomeRowMatches(text))
        => (/\ parsed.error_type = "unknown"
            /\ ~parsed.success
            /\ parsed.error_signature = STR_Unrecognized)

\* C26 witness: a text that holds "plan valid" inside a longer line, and
\* nothing a row matches, has been classified "unknown".
C26_Witness ==
    /\ cpc = "parsed"
    /\ ~HasPlanValidLine(text)
    /\ ~SomeRowMatches(text)
    /\ Contains(STR_plan_valid, ToLower(text))
    /\ parsed.error_type = "unknown"
    /\ parsed.error_signature = STR_Unrecognized

\* C23 as stated: the template-name loop makes at most 2 attempts, and when
\* both are rejected it ends like the direct-PDDL loop: with the fixed
\* fallback artifact in the output file, verified once more, and without a
\* third generation call.
C23_TemplateLoopFallsBack ==
    mode = "template"
    => (/\ attempt <= 2
        /\ genCalls <= 2
        /\ (pc = "done" /\ rejections = 2)
              => (/\ outputFile = fallback_problem
                  /\ outcome = FallbackOutcome(lastVal.is_valid)))

\* C24: in the direct-PDDL loop a generation call that returns an empty
\* response list ends main() at once with a raised error, on whatever
\* attempt: the attempt number stays, no verifier call is made, the fallback
\* is not entered and the output file keeps its content.
C24_EmptyResponseIsFatal ==
    [][LlmGenerate(<<>>)
       => (/\ pc' = "done"
           /\ outcome'.how = "raise"
           /\ attempt' = attempt
           /\ verifyCalls' = verifyCalls
           /\ outputFile' = outputFile
           /\ outputFile' # fallback_problem
           /\ last_problem_text' = last_problem_text)]_vars

\* The generation call of attempt 2 returned nothing: main() has raised
\* after 2 generation calls and the one verifier call of attempt 1, whose
\* artifact is still in the output file.
C24_Witness ==
    /\ mode = "llm"
    /\ pc = "done"
    /\ outcome = Raised("RuntimeError: LLM did not return any response.")
    /\ attempt = 2
    /\ genCalls = 2
    /\ verifyCalls = 1
    /\ outputFile = last_problem_text

\* C25: the planner-repair loop builds the structural (naming-fix) prompt
\* exactly when the planner log holds one of the structural keywords
\* (any case), and the semantic (backward-chaining) prompt otherwise.
C25_RoutingByLogKeywords ==
    [][(mode = "planner" /\ pc = "repair" /\ outputFile # None)
       => (/\ prompt'.template \in {"build_planner_structural_repair_prompt",
                                    "build_planner_repair_prompt"}
           /\ prompt'.template = "build_planner_structural_repair_prompt"
                 <=> \E k \in 1..Len(structural_keywords) :
                        Contains(structural_keywords[k], ToLower(lastVal.output)))]_vars

\* The window of the lines of t around line i (1-based): the 5 lines before
\* it, the line and the 10 lines after it, clipped to the text, joined and
\* stripped as the signature is.
ContextWindow(t, i) ==
    LET lines == SplitLines(t)
    IN  Strip(Join(SubSeq(lines, MaxOf({1, i - 5}), MinOf({Len(lines), i + 10})),
                   <<"\n">>))

\* C27: when a classified text is not valid and a line of the scanned text
\* matches the pattern of the winning row, the signature is the window around
\* the first such line: 5 lines before it, the line, 10 lines after it,
\* clipped at the ends of the text.
C27_SignatureWindow ==
    (cpc = "parsed" /\ ~parsed.success /\ SomeRowMatches(CleanedText(text)))
    => LET cleaned == CleanedText(text)
           lines   == SplitLines(cleaned)
           row     == ERROR_PATTERNS[MinOf({k \in 1..Len(ERROR_PATTERNS) :
                                              ReSearch(ERROR_PATTERNS[k].alts, cleaned)})]
           hits    == {i \in 1..Len(lines) : ReSearch(row.alts, lines[i])}
       IN  hits # {} => parsed.error_signature = ContextWindow(cleaned, MinOf(hits))

\* C28: in a sequential batch (the calls since the last reset) the ledger
\* grows in processing order and holds exactly the tasks whose output_hash
\* differs from the hash of every earlier task of the batch: a call with a
\* new hash puts its compact entry at the end of the ledger, a call with a
\* hash seen earlier in the batch leaves the ledger as it is (its record
\* exists all the same), and a reset starts from the empty ledger.
C28_LedgerInProcessingOrder ==
    [][/\ (lastOp' \in {"appended", "skipped"} /\ ops' = ops + 1)
          => (/\ lastRecord' \in Records
              /\ IF lastRecord'.output_hash \in appended
                 THEN ledger' = ledger /\ lastOp' = "skipped"
                 ELSE /\ ledger' = ledger \o <<CompactEntry(lastRecord')>>
                      /\ lastOp' = "appended")
       /\ (lastOp' = "reset" /\ ops' = ops + 1) => (ledger' = <<>> /\ appended' = {})]_vars

\* Three tasks of one batch were processed: the first two have different
\* outputs and are in the ledger in that order, the third repeated an earlier
\* output and was skipped.
C28_Witness ==
    /\ lastOp = "skipped"
    /\ ops = 3
    /\ Len(ledger) = 2
    /\ ledger[1].output_hash # ledger[2].output_hash
    /\ lastRecord.output_hash \in {ledger[1].output_hash, ledger[2].output_hash}
    /\ CompactEntry(lastRecord) \notin {ledger[1], ledger[2]}

\* C29: in every ledger entry the top-level success flag (exit code 0) and
\* the classifier's flag parsed.success are equal, so that the number of valid
\* plans of the summary is the number of entries with success = true.
C29_SuccessFlagsAgree ==
    /\ \A i \in 1..Len(ledger) : ledger[i].success = ledger[i].parsed.success
    /\ Summarize(ledger).valid_plans
          = Cardinality({i \in 1..Len(ledger) : ledger[i].success})

-----------------------------------------------------------------------------
(* problem_validation/llmcaller.py: LocalLLMCaller.get_completion *)

\* "MAX_RETRY_ATTEMPTS = 10"
MAX_RETRY_ATTEMPTS == 10

\* How one pass through the try block ends: the response was generated, or an
\* exception of one of these types was raised.
TryResults ==
    {"ok", "AuthenticationError", "RateLimitError", "TimeoutError", "APIError",
     "RuntimeError"}

\* The max_attempts values a caller is constructed with; 0 stands for None,
\* the default (both are falsy in "if self.max_attempts and ...").
MaxAttemptsValues == {0, 1, 3, 12}

\* The n values get_completion is called with.
CompletionCounts == {1, 2}

\* The defaults of __init__, which every caller of the repository is
\* constructed with: base_retry_delay = 2.0 and max_retry_delay = 60.0 in
\* tenths of a second, jitter = 0.1 in percent.
BASE_RETRY_DELAY == 20
MAX_RETRY_DELAY == 600
JITTER_PERCENT == 10

\* The surcharges of _handle_error, in tenths of a second.
RATE_LIMIT_EXTRA == 100
API_ERROR_EXTRA == 50

RECURSIVE Pow2(_)
Pow2(n) == IF n <= 0 THEN 1 ELSE 2 * Pow2(n - 1)

\* "min(self.max_retry_delay, self.base_retry_delay * (2 ** (self.attempt_count - 1)))"
CappedDelay(attempt_count) ==
    MinOf({MAX_RETRY_DELAY, BASE_RETRY_DELAY * Pow2(attempt_count - 1)})

\* "jitter_amount = delay * self.jitter"
JitterAmount(attempt_count) == (CappedDelay(attempt_count) * JITTER_PERCENT) \div 100

\* The values of random.uniform(-jitter_amount, jitter_amount) the model
\* draws: both ends and the middle of the interval.
JitterDraws(attempt_count) ==
    {0 - JitterAmount(attempt_count), 0, JitterAmount(attempt_count)}

\* _calculate_delay(), with u the value random.uniform returned.
calculate_delay(attempt_count, u) ==
    LET delay == CappedDelay(attempt_count) + (IF JITTER_PERCENT > 0 THEN u ELSE 0)
    IN  MaxOf({BASE_RETRY_DELAY, MinOf({delay, MAX_RETRY_DELAY})})

\* (mutant) A wait that is the delay of _calculate_delay for every error type.
WaitTime_Plain(error_type, attempt_count, u) == calculate_delay(attempt_count, u)

\* wait_time of _handle_error, per type of the error.
WaitTime(error_type, attempt_count, u) ==
    IF error_type = "RateLimitError" THEN calculate_delay(attempt_count, u) + RATE_LIMIT_EXTRA
    ELSE IF error_type = "TimeoutError" THEN calculate_delay(attempt_count, u)
    ELSE IF error_type = "APIError" THEN calculate_delay(attempt_count, u) + API_ERROR_EXTRA
    ELSE calculate_delay(attempt_count, u)

\* (mutant) An error handler that waits and retries after an authentication
\* error as after any other error.
handle_error_RetryAuth(error_type, attempt_count, max_attempts, u) ==
    IF max_attempts # 0 /\ attempt_count >= max_attempts THEN -1
    ELSE WaitTime(error_type, attempt_count, u)

\* _handle_error(error): -1 to give up, else the time to wait, with u the
\* value random.uniform returned.
handle_error(error_type, attempt_count, max_attempts, u) ==
    IF error_type = "AuthenticationError" THEN -1
    ELSE IF max_attempts # 0 /\ attempt_count >= max_attempts THEN -1
    ELSE WaitTime(error_type, attempt_count, u)

\* The states of a call get_completion(prompt, ..., n, verbose) of a caller
\* constructed with max_attempts, at the head of "for _ in range(n)", with
\* verbose one of verbose_values.
CallStates(verbose_values) ==
    {[at |-> "for", n |-> n, max_attempts |-> max_attempts, verbose |-> verbose,
      completion |-> 1, attempt_count |-> 0, total_attempt_count |-> 0, responses |-> 0,
      last_error |-> "none", retried_after_auth |-> FALSE, wait_time |-> 0,
      how |-> "running"] :
        n \in CompletionCounts, max_attempts \in MaxAttemptsValues,
        verbose \in verbose_values}

\* A call of get_completion as the repository makes it: no call passes
\* verbose (generate_problem.py, test_planner_repair.py, generate_nl_plan.py
\* and the module's own main; the --verbose flags of the scripts are not
\* handed on), so it has its default, False.
CallerInit ==
    /\ ClassifierIdle
    /\ LedgerIdle
    /\ LoopIdle
    /\ DriverIdle
    /\ caller \in CallStates({FALSE})

\* A call of get_completion with any value of its parameter verbose: the
\* method as a caller outside the repository can use it.
GetCompletionInit ==
    /\ ClassifierIdle
    /\ LedgerIdle
    /\ LoopIdle
    /\ DriverIdle
    /\ caller \in CallStates(BOOLEAN)

\* "for _ in range(n): self.attempt_count = 0"
EnterCompletion ==
    /\ caller.at = "for"
    /\ caller.completion <= caller.n
    /\ caller' = [caller EXCEPT !.at = "while", !.attempt_count = 0, !.last_error = "none"]
    /\ UNCHANGED <<classifierVars, ledgerVars, loopVars, driverVars>>

\* One iteration of "while self.attempt_count < self.MAX_RETRY_ATTEMPTS": the
\* try block, and the except block when it raised, with u the value
\* random.uniform returned there; wait_time is what this iteration slept (0:
\* it did not sleep).  self.total_delay, the sum of the sleeps, is written
\* here and read nowhere in the program; the model does not carry it.
Try(res, u) ==
    /\ caller.at = "while"
    /\ caller.attempt_count < MAX_RETRY_ATTEMPTS
    /\ LET attempt_count == caller.attempt_count + 1
           retried == caller.retried_after_auth \/ caller.last_error = "AuthenticationError"
           leave == [caller EXCEPT !.at = "for",
                                   !.completion = caller.completion + 1,
                                   !.attempt_count = attempt_count,
                                   !.total_attempt_count =
                                       caller.total_attempt_count + attempt_count,
                                   !.retried_after_auth = retried,
                                   !.wait_time = 0]
           wait_time == handle_error(res, attempt_count, caller.max_attempts, u)
       IN  IF res = "ok"
           THEN caller' = [leave EXCEPT !.responses = caller.responses + 1]
           ELSE IF wait_time = -1
                THEN caller' = [leave EXCEPT !.last_error = res]
                ELSE caller' = [caller EXCEPT !.attempt_count = attempt_count,
                                              !.last_error = res,
                                              !.retried_after_auth = retried,
                                              !.wait_time = wait_time]
    /\ UNCHANGED <<classifierVars, ledgerVars, loopVars, driverVars>>

\* The while condition is false: MAX_RETRY_ATTEMPTS attempts were made.
RetriesUsedUp ==
    /\ caller.at = "while"
    /\ caller.attempt_count >= MAX_RETRY_ATTEMPTS
    /\ caller' = [caller EXCEPT !.at = "for", !.completion = caller.completion + 1,
                                !.wait_time = 0]
    /\ UNCHANGED <<classifierVars, ledgerVars, loopVars, driverVars>>

\* The code behind the for loop: with verbose the print evaluates
\* "running_n*n", and running_n is defined nowhere, so a NameError is raised;
\* otherwise "return responses, token_stats".
EndOfCall ==
    /\ caller.at = "for"
    /\ caller.completion > caller.n
    /\ caller' = [caller EXCEPT !.at = "done",
                                !.how = IF caller.verbose THEN "NameError" ELSE "return"]
    /\ UNCHANGED <<classifierVars, ledgerVars, loopVars, driverVars>>

CallerNext ==
    \/ EnterCompletion
    \/ \E res \in TryResults, u \in JitterDraws(caller.attempt_count + 1) : Try(res, u)
    \/ RetriesUsedUp
    \/ EndOfCall

\* One call of get_completion as the repository makes it, for every way its
\* generation attempts can end.
SpecCaller == CallerInit /\ [][CallerNext]_vars

\* One call of get_completion with any value of verbose: with verbose True
\* the call ends in the NameError of EndOfCall, whatever its attempts did.
SpecGetCompletion == GetCompletionInit /\ [][CallerNext]_vars

\* C30: get_completion retries nothing indefinitely: it makes at most 10
\* attempts per requested completion, at most max_attempts when that is set
\* lower, none after an authentication error, and the call then returns (its
\* response list may be empty); also when max_attempts is None.
C30_BoundedRetriesThenReturn ==
    caller.at # "idle"
    => (/\ caller.attempt_count <= 10
        /\ caller.max_attempts \in 1..9 => caller.attempt_count <= caller.max_attempts
        /\ ~caller.retried_after_auth
        /\ caller.at = "done" => caller.how = "return")

\* A call for one completion, of a caller without max_attempts, has returned
\* an empty response list after 10 failed attempts, the last of them not an
\* authentication error.
C30_Witness ==
    /\ caller.at = "done"
    /\ caller.how = "return"
    /\ caller.n = 1
    /\ caller.max_attempts = 0
    /\ caller.attempt_count = 10
    /\ caller.responses = 0
    /\ caller.last_error \notin {"none", "AuthenticationError"}

-----------------------------------------------------------------------------
(* C31: the verdict of a problem-only verification *)

\* The lines of the output that begin with "errors:", leading blanks and
\* letter case aside.
ErrorsLines(stdout) ==
    LET lines == SplitLines(stdout)
    IN  {i \in 1..Len(lines) :
            StartsWith(ToLower(Strip(lines[i])), <<"e","r","r","o","r","s",":">>)}

\* The count of the last "errors:" line: the text between its first colon and
\* the first comma behind "errors", read as an integer.
LastErrorsCount(stdout) ==
    LET lines == SplitLines(stdout)
        line  == ToLower(Strip(lines[MaxOf(ErrorsLines(stdout))]))
        head  == SplitOn(line, ",")[1]
    IN  ParseInt(SplitOn(head, ":")[2])

ProblemOnlyVerdict(proc) ==
    IF Contains(<<"p","a","r","s","e","r"," ","f","a","i","l","e","d"," ","t","o"," ",
                  "r","e","a","d"," ","f","i","l","e">>, ToLower(proc.stdout))
    THEN FALSE
    ELSE IF ErrorsLines(proc.stdout) # {} /\ LastErrorsCount(proc.stdout).ok
         THEN LastErrorsCount(proc.stdout).value = 0
         ELSE proc.returncode = 0

ProblemOnlyVerdict_of == [proc \in ValResults |-> ProblemOnlyVerdict(proc)]

\* C31: every problem-only verification (in the template loop, in the llm
\* loop and for the fallback) is invalid when the output contains "parser
\* failed to read file"; otherwise it is valid exactly when the count of the
\* last "errors:" line is 0, whatever the exit code, if that count can be
\* read; otherwise it is valid exactly when the exit code is 0.
C31_ProblemOnlyVerdict ==
    [][\A proc \in ValResults :
          (TemplateVerify(proc) \/ LlmVerify(proc) \/ LlmFallback(proc))
          => lastVal'.is_valid = ProblemOnlyVerdict_of[proc]]_vars

\* A verification that exited with 1 was taken as valid from its count line.
C31_Witness ==
    /\ verifyCalls > 0
    /\ lastVal.is_valid
    /\ lastVal.output = Strip(OUT_TwoSummaries)

-----------------------------------------------------------------------------
(* C32: the error text of a verifier-level repair prompt *)

\* The hint for the domain of the model: its declared types, the dash of the
\* typing aside.
C32_TypesHint ==
    <<"\n","A","v","a","i","l","a","b","l","e"," ","t","y","p","e","s",":",
      " ","s","c","r","e","e","n"," ","f","i","e","l","d"," ","o","b","j","e",
      "c","t">>

C32_MentionsUnknownType(t) ==
    Contains(<<"u","n","k","n","o","w","n"," ","t","y","p","e">>, ToLower(t))

\* C32: after a verifier rejection in the llm loop the repair prompt carries
\* the whole verifier output, followed by the hint with the domain's types
\* exactly when that output contains "unknown type" in any letter case; after
\* a pre-check failure it carries the pre-check message and no hint.
C32_VerifierErrorForwarded ==
    [][/\ \A proc \in ValResults :
            (LlmVerify(proc) /\ ~lastVal'.is_valid)
            => /\ prompt'.template = "build_repair_prompt"
               /\ prompt'.error =
                     lastVal'.output \o (IF C32_MentionsUnknownType(lastVal'.output)
                                         THEN C32_TypesHint ELSE <<>>)
       /\ \A responses \in LlmResponses :
            (LlmGenerate(responses) /\ precheckFails' = precheckFails + 1)
            => /\ prompt'.error = quick_pddl_checks_of[responses].err
               /\ ~Contains(C32_TypesHint, prompt'.error)]_vars

\* A rejected output in capital letters was forwarded with the hint.
C32_Witness ==
    /\ mode = "llm"
    /\ rejections > precheckFails
    /\ prompt.template = "build_repair_prompt"
    /\ prompt.error = Strip(OUT_UnknownTypeUpper) \o C32_TypesHint

-----------------------------------------------------------------------------
(* C33: the artifact on disk after a successful direct-PDDL run *)

\* The fallback template, written out: PROBLEM_TEMPLATE with the name
\* fallback_demo.
C33_FallbackArtifact ==
    PROBLEM_TEMPLATE_head \o <<"f","a","l","l","b","a","c","k","_","d","e","m","o">>
        \o PROBLEM_TEMPLATE_tail

\* The candidates the pre-check lets through.
C33_PreCheckedCandidates ==
    {problem_pddl_of[r] : r \in {x \in LlmResponses \ {<<>>} : quick_pddl_checks_of[x].ok}}

\* C33: when the llm-mode controller ends with success, the problem file holds
\* the artifact the last, accepting verifier call checked: the last generated
\* candidate, which passed the pre-check, when the loop accepted, and the
\* fallback template when the fallback accepted; the accepting call left the
\* file as it checked it.
C33_AcceptedArtifactOnDisk ==
    [][/\ \A proc \in ValResults :
            (LlmVerify(proc) /\ lastVal'.is_valid)
            => /\ outcome'.how = "return"
               /\ outputFile' = outputFile
               /\ outputFile' = last_problem_text'
               /\ outputFile' \in C33_PreCheckedCandidates
       /\ \A proc \in ValResults :
            (LlmFallback(proc) /\ lastVal'.is_valid)
            => /\ outcome'.how = "return"
               /\ outputFile' = outputFile
               /\ outputFile' = C33_FallbackArtifact
       /\ (mode = "llm" /\ pc # "done" /\ pc' = "done" /\ outcome'.how = "return")
            => /\ lastVal'.is_valid
               /\ verifyCalls' = verifyCalls + 1
               /\ outputFile' \in C33_PreCheckedCandidates \cup {C33_FallbackArtifact}]_vars

\* A run that ended with success on the fallback template after a candidate
\* that failed the pre-check.
C33_Witness ==
    /\ mode = "llm"
    /\ pc = "done"
    /\ outcome.how = "return"
    /\ outputFile = C33_FallbackArtifact
    /\ last_problem_text \notin C33_PreCheckedCandidates

-----------------------------------------------------------------------------
(* C34: the ledger is append-only *)

\* C34: an append_to_dataset call leaves every existing ledger entry as and
\* where it is: the ledger before the call is a prefix of the ledger after
\* it, which is longer by at most one entry; the ledger loses or changes an
\* entry only in reset_dataset.
C34_AppendOnly ==
    [][/\ (\E rec \in Records : AppendToDataset(rec))
            => /\ Len(ledger') \in {Len(ledger), Len(ledger) + 1}
               /\ SubSeq(ledger', 1, Len(ledger)) = ledger
       /\ (~(Len(ledger') >= Len(ledger) /\ SubSeq(ledger', 1, Len(ledger)) = ledger))
            => (lastOp' = "reset" /\ ledger' = <<>>)]_vars

\* An append extended a ledger that already held an entry.
C34_Witness ==
    /\ lastOp = "appended"
    /\ Len(ledger) >= 2
    /\ ledger[Len(ledger)].output_hash = lastRecord.output_hash

-----------------------------------------------------------------------------
(* case_demo/run_validate.py: main(), one batch run over the problem directory *)

\* sorted(os.listdir(PROBLEM_DIR)): the task ids in the order of their file names.
TaskOrder == <<"1", "2">>

\* A timestamp of an earlier batch run.
EARLIER == "T0"

\* What an earlier batch run may have left in results/dataset.jsonl.
PriorLedgers ==
    {<<>>}
      \cup {<<CompactEntry(RunRecord(t, r, EARLIER))>> : t \in Tasks, r \in ProcResults}
      \cup {pair \in {<<CompactEntry(RunRecord("1", r1, EARLIER)),
                          CompactEntry(RunRecord("2", r2, EARLIER))>> :
                            r1 \in ProcResults, r2 \in ProcResults} :
                pair[1].output_hash # pair[2].output_hash}

\* "tasks": the ids of the *.problem.pddl files that have a plan file, sorted.
BatchTasks(problems, plans) ==
    SelectSeq(TaskOrder, LAMBDA t : t \in problems /\ t \in plans)

BatchInit ==
    /\ ClassifierIdle
    /\ LoopIdle
    /\ CallerIdle
    /\ demo = [pc |-> "idle"]
    /\ planCmd = [pc |-> "idle"]
    /\ \E prior \in PriorLedgers, exists \in BOOLEAN :
          /\ (prior # <<>>) => exists
          /\ datasetExists = exists
          /\ ledger = prior
          /\ summary = IF exists THEN Summarize(prior) ELSE NoSummary
    /\ lastOp = "none"
    /\ lastRecord = NoRecord
    /\ appended = {}
    /\ writers = <<>>
    /\ ops = 0
    /\ \E problems \in SUBSET Tasks, plans \in SUBSET Tasks :
          batch = [pc |-> "reset", tasks |-> BatchTasks(problems, plans), next |-> 1,
                   summaries |-> 0, how |-> "running"]

\* (mutant) A batch that starts on the file as it finds it.
BatchReset_Keep ==
    /\ batch.pc = "reset"
    /\ batch' = [batch EXCEPT !.pc = "validate"]
    /\ ops' = ops + 1
    /\ datasetExists' = TRUE
    /\ lastOp' = "reset"
    /\ UNCHANGED <<ledger, lastRecord, appended, summary, writers>>
    /\ UNCHANGED <<classifierVars, loopVars, callerVars, demo, planCmd>>

\* "reset_dataset()" and the collection of the tasks.
BatchReset ==
    /\ batch.pc = "reset"
    /\ batch' = [batch EXCEPT !.pc = "validate"]
    /\ ops' = ops + 1
    /\ ledger' = <<>>
    /\ datasetExists' = TRUE
    /\ lastOp' = "reset"
    /\ lastRecord' = NoRecord
    /\ appended' = {}
    /\ UNCHANGED <<summary, writers>>
    /\ UNCHANGED <<classifierVars, loopVars, callerVars, demo, planCmd>>

\* "for task_id in tasks: run_validate(task_id)": one pass of the loop, with
\* the result res of the validate process.
BatchValidate(res) ==
    /\ batch.pc = "validate"
    /\ batch.next <= Len(batch.tasks)
    /\ batch' = [batch EXCEPT !.next = batch.next + 1]
    /\ ops' = ops + 1
    /\ \E ts \in Timestamps :
          WriteOrSkip(RunRecord(batch.tasks[batch.next], res, ts), load_existing_hashes)
    /\ UNCHANGED <<summary, writers>>
    /\ UNCHANGED <<classifierVars, loopVars, callerVars, demo, planCmd>>

\* run_validate when the validate program cannot be started: subprocess.run
\* raises and main() has no handler.
BatchLaunchFault ==
    /\ batch.pc = "validate"
    /\ batch.next <= Len(batch.tasks)
    /\ batch' = [batch EXCEPT !.pc = "done", !.how = "raise"]
    /\ UNCHANGED ledgerVars
    /\ UNCHANGED <<classifierVars, loopVars, callerVars, demo, planCmd>>

\* "generate_summary()" behind the loop, and the end of main().
BatchSummary ==
    /\ batch.pc = "validate"
    /\ batch.next > Len(batch.tasks)
    /\ batch' = [batch EXCEPT !.pc = "done", !.summaries = batch.summaries + 1,
                              !.how = "return"]
    /\ ops' = ops + 1
    /\ summary' = IF datasetExists THEN Summarize(ledger) ELSE summary
    /\ lastOp' = "summary"
    /\ lastRecord' = NoRecord
    /\ UNCHANGED <<datasetExists, ledger, appended, writers>>
    /\ UNCHANGED <<classifierVars, loopVars, callerVars, demo, planCmd>>

BatchNext ==
    \/ BatchReset
    \/ \E res \in ProcResults : BatchValidate(res)
    \/ BatchLaunchFault
    \/ BatchSummary

SpecBatch == BatchInit /\ [][BatchNext]_vars

\* C35: a batch run empties the ledger before its first append, so that once
\* the batch has ended every ledger entry was appended by this batch (none is
\* left from an earlier run), and the summary is computed once, behind the
\* last append of the batch, from the ledger of this batch.
C35_ResetBoundary ==
    /\ batch.pc = "reset" => appended = {}
    /\ batch.pc \in {"validate", "done"}
         => /\ \A i \in 1..Len(ledger) :
                  /\ ledger[i].timestamp \in Timestamps
                  /\ ledger[i].output_hash \in appended
                  /\ ledger[i].task_id \in {batch.tasks[k] : k \in 1..(batch.next - 1)}
            /\ Len(ledger) <= batch.next - 1
    /\ batch.pc = "validate" => batch.summaries = 0
    /\ (batch.pc = "done" /\ batch.how = "return")
         => /\ batch.next = Len(batch.tasks) + 1
            /\ batch.summaries = 1
            /\ summary.written
            /\ summary.total_records = Len(ledger)
            /\ summary = Summarize(ledger)

\* A batch of two tasks ended with the summary of its own two entries.
C35_Witness ==
    /\ batch.pc = "done"
    /\ batch.how = "return"
    /\ Len(batch.tasks) = 2
    /\ Len(ledger) = 2
    /\ lastOp = "summary"
    /\ summary.total_records = 2

-----------------------------------------------------------------------------
(* nl_plan_validator/generate_and_validate.py: main();                      *)
(* demo.py: stream_run and main() in batch mode                             *)

\* What subprocess.run reports as proc.returncode of the validate program:
\* its exit status, or minus the number of the signal that killed it.
ReturnCodes == {0, 1, 2, 3, 127, 255, -6, -9, -11}

\* Number of values of a process exit status (8 bits).
EXIT_STATUS_SPACE == 256

\* The exit status a parent sees after sys.exit(code) with an integer code.
ExitStatus(code) == code % EXIT_STATUS_SPACE

\* "result["exit_code"] or 1"
OrOne(exit_code) == IF exit_code = 0 THEN 1 ELSE exit_code

\* (mutant) A run that exits with 1 whenever validation failed.
FailureStatus_One(result) == ExitStatus(1)

\* "sys.exit(result["exit_code"] or 1)"
FailureStatus(result) == ExitStatus(OrOne(result.exit_code))

NoResult == [success |-> FALSE, exit_code |-> 0, launched |-> FALSE]

\* The command line demo.py builds for a case: never --no-validate.
PlanCmdStart(input_ok) ==
    [pc |-> "start", input_ok |-> input_ok, no_validate |-> FALSE,
     result |-> NoResult, status |-> 0]

\* load_steps, build_plan_lines, write_plan_file; "if args.no_validate: return".
PlanCmdBuild ==
    /\ planCmd.pc = "start"
    /\ planCmd' = IF ~planCmd.input_ok
                  THEN [planCmd EXCEPT !.pc = "exited", !.status = ExitStatus(1)]
                  ELSE IF planCmd.no_validate
                       THEN [planCmd EXCEPT !.pc = "exited", !.status = ExitStatus(0)]
                       ELSE [planCmd EXCEPT !.pc = "val"]
    /\ UNCHANGED <<batch, demo>>
    /\ UNCHANGED <<classifierVars, ledgerVars, loopVars, callerVars>>

\* run_val, save_val_log and the end of main(), for a validate process that
\* ended with returncode.
PlanCmdRunVal(returncode) ==
    /\ planCmd.pc = "val"
    /\ LET result == [success |-> (returncode = 0), exit_code |-> returncode,
                      launched |-> TRUE]
       IN  planCmd' = [planCmd EXCEPT
                          !.pc = "exited",
                          !.result = result,
                          !.status = IF result.success THEN ExitStatus(0)
                                     ELSE FailureStatus(result)]
    /\ UNCHANGED <<batch, demo>>
    /\ UNCHANGED <<classifierVars, ledgerVars, loopVars, callerVars>>

\* run_val when the validate program cannot be started: subprocess.run raises,
\* main() has no handler and the interpreter exits with 1.
PlanCmdLaunchFault ==
    /\ planCmd.pc = "val"
    /\ planCmd' = [planCmd EXCEPT !.pc = "exited", !.status = ExitStatus(1)]
    /\ UNCHANGED <<batch, demo>>
    /\ UNCHANGED <<classifierVars, ledgerVars, loopVars, callerVars>>

\* The case directories of the batch directory, in sorted order, each with
\* whether resolve_case_files finds a problem file and whether the generator
\* wrote its nlplan.json.
CaseNames == <<"case_a", "case_b", "case_c", "case_d">>

MaxCases == 3

CaseLists ==
    UNION {[1..n -> BOOLEAN \X BOOLEAN] : n \in 0..MaxCases}

CaseOf(list, i) ==
    [name |-> CaseNames[i], has_problem |-> list[i][1], has_nlplan |-> list[i][2]]

DemoInit ==
    /\ ClassifierIdle
    /\ LedgerIdle
    /\ LoopIdle
    /\ CallerIdle
    /\ batch = [pc |-> "idle"]
    /\ planCmd = [pc |-> "idle"]
    /\ \E list \in CaseLists, no_validate \in BOOLEAN :
          demo = [pc |-> "generate", cases |-> [i \in 1..Len(list) |-> CaseOf(list, i)],
                  no_validate |-> no_validate, generated |-> FALSE, next |-> 1,
                  validated |-> <<>>, failed |-> <<>>, status |-> 0]

\* "except Exception as exc: ... sys.exit(1)"
DemoFailed == [demo EXCEPT !.pc = "done", !.status = ExitStatus(1)]

\* The start of the batch: no case directory raises; stream_run(gen_cmd)
\* raises when the generator exits with a status other than 0; with
\* --no-validate the batch ends here.
DemoGenerate(gen_status) ==
    /\ demo.pc = "generate"
    /\ demo' = IF Len(demo.cases) = 0 \/ gen_status # 0 THEN DemoFailed
               ELSE IF demo.no_validate
                    THEN [demo EXCEPT !.pc = "done", !.generated = TRUE]
                    ELSE [demo EXCEPT !.pc = "cases", !.generated = TRUE]
    /\ UNCHANGED <<batch, planCmd>>
    /\ UNCHANGED <<classifierVars, ledgerVars, loopVars, callerVars>>

Eligible(case) == case.has_problem /\ case.has_nlplan

\* "for case_dir in case_dirs": a case without problem file or without
\* nlplan.json is skipped ("continue").
DemoSkip ==
    /\ demo.pc = "cases"
    /\ demo.next <= Len(demo.cases)
    /\ ~Eligible(demo.cases[demo.next])
    /\ demo' = [demo EXCEPT !.next = demo.next + 1]
    /\ UNCHANGED <<batch, planCmd>>
    /\ UNCHANGED <<classifierVars, ledgerVars, loopVars, callerVars>>

\* stream_run(val_cmd): generate_and_validate.py is started on the case.
DemoStartCase(input_ok) ==
    /\ demo.pc = "cases"
    /\ demo.next <= Len(demo.cases)
    /\ Eligible(demo.cases[demo.next])
    /\ demo' = [demo EXCEPT !.pc = "wait",
                            !.validated = Append(demo.validated, demo.cases[demo.next].name)]
    /\ planCmd' = PlanCmdStart(input_ok)
    /\ UNCHANGED batch
    /\ UNCHANGED <<classifierVars, ledgerVars, loopVars, callerVars>>

\* (mutant) A driver that notes the failed case and goes on with the next.
DemoAfterCase_Continue ==
    /\ demo.pc = "wait"
    /\ planCmd.pc = "exited"
    /\ demo' = [demo EXCEPT !.pc = "cases", !.next = demo.next + 1,
                            !.failed = IF planCmd.status # 0
                                       THEN Append(demo.failed, demo.cases[demo.next].name)
                                       ELSE demo.failed]
    /\ planCmd' = [pc |-> "idle"]
    /\ UNCHANGED batch
    /\ UNCHANGED <<classifierVars, ledgerVars, loopVars, callerVars>>

\* stream_run behind proc.wait(): "if proc.returncode != 0: raise
\* RuntimeError", which main() turns into sys.exit(1); else the next case.
DemoAfterCase ==
    /\ demo.pc = "wait"
    /\ planCmd.pc = "exited"
    /\ demo' = IF planCmd.status # 0
               THEN [DemoFailed EXCEPT !.failed = Append(demo.failed, demo.cases[demo.next].name)]
               ELSE [demo EXCEPT !.pc = "cases", !.next = demo.next + 1]
    /\ planCmd' = [pc |-> "idle"]
    /\ UNCHANGED batch
    /\ UNCHANGED <<classifierVars, ledgerVars, loopVars, callerVars>>

\* The end of the loop over the cases.
DemoEnd ==
    /\ demo.pc = "cases"
    /\ demo.next > Len(demo.cases)
    /\ demo' = [demo EXCEPT !.pc = "done"]
    /\ UNCHANGED <<batch, planCmd>>
    /\ UNCHANGED <<classifierVars, ledgerVars, loopVars, callerVars>>

DemoNext ==
    \/ \E gen_status \in {0, 1} : DemoGenerate(gen_status)
    \/ DemoSkip
    \/ \E input_ok \in BOOLEAN : DemoStartCase(input_ok)
    \/ PlanCmdBuild
    \/ \E returncode \in ReturnCodes : PlanCmdRunVal(returncode)
    \/ PlanCmdLaunchFault
    \/ DemoAfterCase
    \/ DemoEnd

SpecDemo == DemoInit /\ [][DemoNext]_vars

\* Number of times the validation command was started on the case name.
TimesValidated(name) ==
    Cardinality({i \in 1..Len(demo.validated) : demo.validated[i] = name})

\* C36: when a batch of the demo driver that validates has ended behind its
\* generation step, every case with a problem file and a generated
\* nlplan.json was validated exactly once, also the cases behind a case whose
\* validation failed.
C36_EveryCaseValidatedOnce ==
    (demo.pc = "done" /\ demo.generated /\ ~demo.no_validate)
    => \A i \in 1..Len(demo.cases) :
          Eligible(demo.cases[i]) => TimesValidated(demo.cases[i].name) = 1

\* C37: the plan generate-and-validate command exits with 0 when the verifier
\* succeeds and with the verifier's exit code when the verifier fails.
C37_ExitCodePropagates ==
    (planCmd.pc = "exited" /\ planCmd.result.launched)
    => planCmd.status = planCmd.result.exit_code

-----------------------------------------------------------------------------
(* C38: the waits between generation retries *)

\* C38: every wait slept between two generation attempts lies between the
\* base delay (2 s) and the cap (60 s) and differs from min(cap, base *
\* 2^(attempt-1)) by at most the jitter fraction of that value, for every
\* type of error and every attempt number.  (Times in tenths of a second.)
C38_BackoffWithinBounds ==
    (caller.at = "while" /\ caller.wait_time > 0)
    => LET expected == MinOf({600, 20 * Pow2(caller.attempt_count - 1)})
       IN  /\ caller.wait_time >= 20
           /\ caller.wait_time <= 600
           /\ 10 * (caller.wait_time - expected) <= expected
           /\ 10 * (expected - caller.wait_time) <= expected

-----------------------------------------------------------------------------
(* C39: noise lines do not influence the classification *)

\* A noise line: it starts with "type-checking" or contains "...action passes
\* type checking", letter case aside.
C39_IsNoise(line) ==
    \/ StartsWith(ToLower(line), <<"t","y","p","e","-","c","h","e","c","k","i","n","g">>)
    \/ Contains(<<".",".",".","a","c","t","i","o","n"," ","p","a","s","s","e","s"," ",
                  "t","y","p","e"," ","c","h","e","c","k","i","n","g">>, ToLower(line))

C39_NotNoise(line) == ~C39_IsNoise(line)

\* The text that differs from t in its noise lines only and has none.
C39_WithoutNoise(t) == Join(SelectSeq(SplitLines(t), C39_NotNoise), <<"\n">>)

\* C39: a raw text without a "plan valid" line receives the error kind, the
\* signature and the message of the text that holds its other lines only;
\* so two such texts that differ only in noise lines receive the same three
\* values, also when a noise line contains an error pattern.
C39_NoiseLinesIgnored ==
    (/\ cpc = "parsed"
     /\ ~PlanValidSearch(ToLower(text))
     /\ ~PlanValidSearch(ToLower(C39_WithoutNoise(text))))
    => LET other == parse_val_output(C39_WithoutNoise(text))
       IN  /\ parsed.error_type = other.error_type
           /\ parsed.error_signature = other.error_signature
           /\ parsed.message = other.message

\* A text whose only error pattern stands in a noise line was classified.
C39_Witness ==
    /\ cpc = "parsed"
    /\ text = Pieces[9] \o Pieces[7] \o Pieces[3]
    /\ C39_WithoutNoise(text) = <<>>
    /\ parsed.error_type = "unknown"

-----------------------------------------------------------------------------
Spec == SpecClassify
=============================================================================
